---- MODULE Spec2Model ----
(***************************************************************************)
(* Agent runtimes of ai-agents-from-scratch: the tool-calling loops of     *)
(* src/src/agent.py (Agent), src/agents.py (Agent), src/src/agent_sync.py  *)
(* (AgentSync), 09-agent-architecture/tutorial.py (Agent) and              *)
(* 10-advanced-memory/example.py (AgentWithMemory), with their             *)
(* conversation memories and tool registries.                              *)
(*                                                                         *)
(* One behaviour follows one agent object.  impl says which class it is an *)
(* instance of.  The completion endpoint and the tools are the             *)
(* environment: each completion request is answered by a response drawn    *)
(* from a small set, or fails.                                             *)
(***************************************************************************)
EXTENDS Integers, Sequences, FiniteSets, TLC

VARIABLES
    impl,               \* the class of the agent object
    max_iterations,     \* Agent.max_iterations / the ceiling of the running loop
    max_history_tokens, \* AgentWithMemory.max_history_tokens
    messages,           \* memory.messages / memory.items / AgentSync.messages
    tools,              \* the name -> callable mapping
    tool_schemas,       \* src/src/agent.py: Agent.tool_schemas (list)
    pc,                 \* position of the running call: idle, loop, tools, items
    iteration,          \* loop counter of the running call
    resp,               \* the response being processed (tool calls / output items)
    idx,                \* index of the next element of resp to handle
    has_tool_calls,     \* AgentSync / tutorial local
    final_text,         \* AgentSync / tutorial local
    outcome,            \* how the last chat()/run()/register call ended
    requests,           \* completion requests received by the endpoint in the running call
    api_error,          \* error raised by the endpoint in the running call, or None
    chats,              \* number of chat()/run() calls made so far
    lastOp,             \* the operation the last step belongs to
    file,               \* the file save_conversation writes and load_conversation reads
    local_items,        \* AgentWithMemory._trim_history: the local 'items'
    fn,                 \* the function handed to Tool.from_function
    tool_obj,           \* the Tool that Tool.from_function returned
    started,            \* call ids of the current response whose tool has been entered
    finished,           \* call ids of the current response whose tool has returned
    cancel_requested,   \* the caller's cancellation signal
    sessions,           \* 14-fastapi-deployment/server.py: the module-level sessions dict
    inflight,           \* the requests the server is handling
    steps,              \* Workflow.steps
    step_idx,           \* Workflow.run: the position of 'for step in self.steps'
    state,              \* the local 'state' of Workflow.run and of optimize_loop
    returned,           \* what Workflow.run or optimize_loop returned, or None
    rounds,             \* passes of the while loop of optimize_loop so far
    calc                \* safe_calculate: the expression and how the call ended

vars == <<impl, max_iterations, max_history_tokens, messages, tools, tool_schemas,
          pc, iteration, resp, idx, has_tool_calls, final_text, outcome,
          requests, api_error, chats, lastOp, file, local_items, fn, tool_obj,
          started, finished, cancel_requested, sessions, inflight, steps, step_idx,
          state, returned, rounds, calc>>

loopVars == <<iteration, resp, idx, has_tool_calls, final_text, requests, api_error>>
configVars == <<impl, max_iterations, max_history_tokens>>
registryVars == <<tools, tool_schemas>>
persistVars == <<file, local_items>>
schemaVars == <<fn, tool_obj>>
runVars == <<started, finished, cancel_requested>>
serverVars == <<sessions, inflight>>
flowVars == <<steps, step_idx, state, returned, rounds>>
lessonVars == <<serverVars, flowVars, calc>>
\* what the server, the workflows and the calculator never touch
agentVars == <<configVars, persistVars, schemaVars, runVars, registryVars, messages, pc,
               loopVars, outcome>>

----------------------------------------------------------------------------
(* Bounds of the exploration *)

MaxIter == 2        \* max_iterations ranges over 0..MaxIter
MaxChats == 2       \* chat()/run() calls per behaviour
MaxHistory == 3     \* a new chat()/run() starts only with at most this many turns in memory
MaxSystem == 2      \* system turns in the memory of src/src/agent.py's Agent

(* Program constants *)

max_turns == 10

----------------------------------------------------------------------------
(* Values *)

None == "None"

IsPrefix(s, t) == Len(s) <= Len(t) /\ SubSeq(t, 1, Len(s)) = s

NoPayload == [key |-> "none", cat |-> "none", tool |-> "none"]

Turn(role, type, call_id, name, arguments, content, tool_calls, payload) ==
    [role |-> role, type |-> type, call_id |-> call_id, name |-> name,
     arguments |-> arguments, content |-> content, tool_calls |-> tool_calls,
     payload |-> payload]

\* {"role": role, "content": content}
RoleMessage(role, content) ==
    Turn(role, None, 0, None, None, content, <<>>, NoPayload)

\* {"role": "tool", "tool_call_id": id, "content": json}
ToolMessage(tool_call_id, payload) ==
    Turn("tool", None, tool_call_id, None, None, None, <<>>, payload)

\* ChatCompletionMessage.model_dump(exclude_none=True)
AssistantMessage(content, tool_calls) ==
    Turn("assistant", None, 0, None, None, content, tool_calls, NoPayload)

\* json.dumps({"result": result}) and json.dumps({"error": msg}); cat is the
\* wording of msg and tool the tool name quoted in it (None when it quotes none)
ResultPayload == [key |-> "result", cat |-> "value", tool |-> None]
ErrorPayload(cat, tool) == [key |-> "error", cat |-> cat, tool |-> tool]
\* no payload: the exception e leaves the function instead
Raised(e) == [key |-> "raised", cat |-> e, tool |-> None]

\* no file has been written
NoFile == [exists |-> FALSE, complete |-> FALSE, items |-> <<>>]

NoOutcome == [kind |-> "none", value |-> None]
Return(v) == [kind |-> "return", value |-> v]
Raise(e) == [kind |-> "raise", value |-> e]

\* what each loop does once its ceiling is used up: the statement after the
\* loop of _run_agent_loop, chat, _agent_loop and run
OnExhaustion(class) ==
    CASE class = "agent" -> Raise("RuntimeError")
      [] class \in {"agents", "memory"} ->
            Return("Max iterations reached without final answer")
      [] class = "sync" -> Raise("RuntimeError")
      [] class = "tutorial" -> Return("Max iterations reached")

----------------------------------------------------------------------------
(* The environment: tool functions, argument payloads, model responses *)

\* two functions that share __name__: echo_ok returns, echo_raises raises on
\* every call
echo_ok == [name |-> "echo", ver |-> 1, raises |-> FALSE, decorated |-> TRUE,
    returns |-> "str"]
echo_raises == [name |-> "echo", ver |-> 2, raises |-> TRUE, decorated |-> TRUE,
    returns |-> "str"]
Funcs == {echo_ok, echo_raises}

\* a function that was not decorated with @tool: it has no 'tool' attribute
plain == [name |-> "plain", ver |-> 1, raises |-> FALSE, decorated |-> FALSE,
    returns |-> "str"]

\* the argument lists of register_tools(*funcs)
FuncBatches ==
    { <<>>, <<echo_ok>>, <<echo_ok, echo_raises>>, <<echo_ok, plain>>,
      <<plain, echo_ok>> }

ArgsOk == "{\"q\": \"x\"}"
ArgsBadJson == "not json"
ArgsBadKw == "{\"z\": 1}"
ArgsEmpty == "{}"

\* json.loads: ok is FALSE when it raises JSONDecodeError; kw says whether the
\* decoded value is a dict whose keys are the tool's parameters
json_loads(s) ==
    CASE s = ArgsOk -> [ok |-> TRUE, kw |-> TRUE]
      [] s = ArgsBadKw -> [ok |-> TRUE, kw |-> FALSE]
      [] s = ArgsEmpty -> [ok |-> TRUE, kw |-> FALSE]
      [] OTHER -> [ok |-> FALSE, kw |-> FALSE]

\* func(**arguments): the exception it raises, or None
CallFunc(f, parsed) ==
    IF ~parsed.kw THEN "TypeError"
    ELSE IF f.raises THEN "ValueError"
    ELSE None

Invocation(call_id, name, arguments) ==
    [call_id |-> call_id, name |-> name, arguments |-> arguments]

ApiErrors == {"timeout"}
UserMessages == {"hi"}

\* the invocations a response can carry: a call that succeeds or raises
\* according to the registered function, a call with the wrong keywords, a
\* call whose arguments are not JSON, a call of a tool nobody registered, and
\* the same with arguments that are not JSON
call_echo == Invocation(1, "echo", ArgsOk)
call_badkw == Invocation(2, "echo", ArgsBadKw)
call_badjson == Invocation(3, "echo", ArgsBadJson)
call_nope == Invocation(4, "nope", ArgsOk)
call_nope_badjson == Invocation(5, "nope", ArgsBadJson)

\* message.tool_calls of a response that asks for tools
ToolCallLists ==
    { <<call_echo>>, <<call_badkw>>, <<call_badjson>>, <<call_nope>>,
      <<call_nope_badjson>>, <<call_echo, call_nope>>, <<call_nope, call_echo>>,
      <<call_badjson, call_echo, call_badkw>> }

\* response.choices[0].message of client.chat.completions.create
AgentResponses ==
    { [content |-> c, tool_calls |-> <<>>] : c \in {None, "ok"} }
    \cup { [content |-> None, tool_calls |-> t] : t \in ToolCallLists }
    \cup { [content |-> "ok", tool_calls |-> <<call_echo>>] }

----------------------------------------------------------------------------
(* src/src/agent.py: ConversationMemory *)

\* as if the turn replaced the history: self.messages = [turn]
add_message_replacing(msgs, role, content) == <<RoleMessage(role, content)>>

add_message(msgs, role, content) == Append(msgs, RoleMessage(role, content))

\* as if only successful results were recorded
add_tool_result_errors_dropped(msgs, tool_call_id, content) ==
    IF content.key = "error" THEN msgs
    ELSE Append(msgs, ToolMessage(tool_call_id, content))

add_tool_result(msgs, tool_call_id, content) ==
    Append(msgs, ToolMessage(tool_call_id, content))

get_history(msgs) == msgs

\* as if clear() dropped the system turns too
clear_everything(msgs) == <<>>

clear(msgs) == SelectSeq(msgs, LAMBDA msg : msg.role = "system")

----------------------------------------------------------------------------
(* src/src/agent.py: Agent *)

\* Tool.from_function(func).name is func.__name__
ToolName(func) == func.name

\* self.tools[name] = func
DictSet(d, k, v) == [n \in DOMAIN d \cup {k} |-> IF n = k THEN v ELSE d[n]]

\* Agent.register_tool: the callable is stored, then tool.to_dict() raises
\* AttributeError (src/src/tool.py's Tool defines to_openai_format only), so
\* nothing reaches tool_schemas
Agent_register_tool(func) ==
    /\ impl = "agent" /\ pc = "idle"
    /\ chats = 0
    /\ tools' = DictSet(tools, ToolName(func), func)
    /\ outcome' = Raise("AttributeError")
    /\ lastOp' = "register_tool"
    /\ UNCHANGED <<configVars, persistVars, schemaVars, runVars, lessonVars, messages, tool_schemas, pc, loopVars, chats>>

\* Agent.register_tools: 'for func in funcs: self.register_tool(func)'; the
\* first register_tool call stores its callable and raises AttributeError, so
\* the loop ends there
Agent_register_tools(funcs) ==
    /\ impl = "agent" /\ pc = "idle"
    /\ chats = 0
    /\ IF funcs = <<>>
       THEN tools' = tools /\ outcome' = Return(None)
       ELSE /\ tools' = DictSet(tools, ToolName(funcs[1]), funcs[1])
            /\ outcome' = Raise("AttributeError")
    /\ lastOp' = "register_tools"
    /\ UNCHANGED <<configVars, persistVars, schemaVars, runVars, lessonVars, messages, tool_schemas, pc,
                   loopVars, chats>>

\* tools=self.tool_schemas if self.tool_schemas else None, of the request
Agent_request_tools == IF tool_schemas /= <<>> THEN tool_schemas ELSE None

\* as if the last handler, 'except Exception', were missing
Agent_execute_tool_no_catch_all(reg, tool_call) ==
    LET arguments == json_loads(tool_call.arguments)
    IN  IF ~arguments.ok
        THEN ErrorPayload("Failed to parse tool arguments", None)
        ELSE IF tool_call.name \notin DOMAIN reg
        THEN ErrorPayload("not found in registered tools", tool_call.name)
        ELSE LET raised == CallFunc(reg[tool_call.name], arguments)
             IN  IF raised = None THEN ResultPayload
                 ELSE IF raised = "TypeError"
                 THEN ErrorPayload("Invalid arguments for tool", tool_call.name)
                 ELSE Raised(raised)

\* as if json.loads were called outside the try block
Agent_execute_tool_parse_outside_try(reg, tool_call) ==
    LET arguments == json_loads(tool_call.arguments)
    IN  IF ~arguments.ok
        THEN Raised("JSONDecodeError")
        ELSE IF tool_call.name \notin DOMAIN reg
        THEN ErrorPayload("not found in registered tools", tool_call.name)
        ELSE LET raised == CallFunc(reg[tool_call.name], arguments)
             IN  IF raised = None THEN ResultPayload
                 ELSE IF raised = "TypeError"
                 THEN ErrorPayload("Invalid arguments for tool", tool_call.name)
                 ELSE ErrorPayload("Tool execution failed", None)

\* Agent._execute_tool: the JSON payload it returns
Agent_execute_tool(reg, tool_call) ==
    LET arguments == json_loads(tool_call.arguments)
    IN  IF ~arguments.ok
        THEN ErrorPayload("Failed to parse tool arguments", None)
        ELSE IF tool_call.name \notin DOMAIN reg
        THEN ErrorPayload("not found in registered tools", tool_call.name)
        ELSE LET raised == CallFunc(reg[tool_call.name], arguments)
             IN  IF raised = None THEN ResultPayload
                 ELSE IF raised = "TypeError"
                 THEN ErrorPayload("Invalid arguments for tool", tool_call.name)
                 ELSE ErrorPayload("Tool execution failed", None)

\* ConversationMemory.add_message called on agent.memory with a system turn
Agent_memory_add_message(role, content) ==
    /\ impl = "agent" /\ pc = "idle"
    /\ Len(SelectSeq(messages, LAMBDA msg : msg.role = "system")) < MaxSystem
    /\ Len(messages) <= MaxHistory
    /\ messages' = add_message(messages, role, content)
    /\ lastOp' = "add_message"
    /\ UNCHANGED <<configVars, persistVars, schemaVars, runVars, lessonVars, registryVars, pc, loopVars, outcome, chats>>

\* Agent.chat up to the first completion request
Agent_chat(message) ==
    /\ impl = "agent" /\ pc = "idle"
    /\ chats < MaxChats /\ Len(messages) <= MaxHistory
    /\ messages' = add_message(messages, "user", message)
    /\ iteration' = 0
    /\ requests' = 0
    /\ api_error' = None
    /\ outcome' = NoOutcome
    /\ pc' = "loop"
    /\ chats' = chats + 1
    /\ lastOp' = "chat"
    /\ UNCHANGED <<configVars, persistVars, schemaVars, runVars, lessonVars, registryVars, resp, idx, has_tool_calls, final_text>>

\* as if the loop ran while iteration <= self.max_iterations
Agent_while_off_by_one(iter, ceiling) == iter <= ceiling

\* while iteration < self.max_iterations
Agent_while(iter, ceiling) == iter < ceiling

\* one pass of the while loop up to the tool calls: the request is answered
Agent_loop_response(message) ==
    /\ impl = "agent" /\ pc = "loop"
    /\ Agent_while(iteration, max_iterations)
    /\ iteration' = iteration + 1
    /\ requests' = requests + 1
    /\ resp' = message
    /\ messages' = Append(get_history(messages),
                          AssistantMessage(message.content, message.tool_calls))
    /\ IF message.tool_calls /= <<>>
       THEN /\ idx' = 1
            /\ pc' = "tools"
            /\ UNCHANGED outcome
       ELSE /\ outcome' = Return(IF message.content = None THEN "" ELSE message.content)
            /\ pc' = "idle"
            /\ UNCHANGED idx
    /\ started' = {}
    /\ finished' = {}
    /\ lastOp' = "chat"
    /\ UNCHANGED <<configVars, persistVars, schemaVars, cancel_requested, lessonVars,
                   registryVars, has_tool_calls, final_text, api_error, chats>>

\* the request raises: nothing in _run_agent_loop or chat catches it
Agent_loop_request_fails(e) ==
    /\ impl = "agent" /\ pc = "loop"
    /\ Agent_while(iteration, max_iterations)
    /\ iteration' = iteration + 1
    /\ requests' = requests + 1
    /\ api_error' = e
    /\ outcome' = Raise(e)
    /\ pc' = "idle"
    /\ lastOp' = "chat"
    /\ UNCHANGED <<configVars, persistVars, schemaVars, runVars, lessonVars, registryVars, messages, resp, idx, has_tool_calls,
                   final_text, chats>>

\* the while condition fails
Agent_loop_exhausted ==
    /\ impl = "agent" /\ pc = "loop"
    /\ ~Agent_while(iteration, max_iterations)
    /\ outcome' = OnExhaustion(impl)
    /\ pc' = "idle"
    /\ lastOp' = "chat"
    /\ UNCHANGED <<configVars, persistVars, schemaVars, runVars, lessonVars, registryVars, messages, loopVars, chats>>

\* one pass of 'for tool_call in message.tool_calls': _execute_tool is entered
\* and has returned before the pass ends
Agent_loop_tool_call ==
    /\ impl = "agent" /\ pc = "tools"
    /\ LET tool_call == resp.tool_calls[idx]
           result == Agent_execute_tool(tools, tool_call)
       IN  /\ started' = started \cup {tool_call.call_id}
           /\ IF result.key = "raised"
              THEN /\ outcome' = Raise(result.cat)
                   /\ pc' = "idle"
                   /\ UNCHANGED <<messages, idx, finished>>
              ELSE /\ finished' = finished \cup {tool_call.call_id}
                   /\ messages' = add_tool_result(messages, tool_call.call_id, result)
                   /\ IF idx < Len(resp.tool_calls)
                      THEN idx' = idx + 1 /\ pc' = "tools"
                      ELSE idx' = idx /\ pc' = "loop"
                   /\ UNCHANGED outcome
    /\ lastOp' = "chat"
    /\ UNCHANGED <<configVars, persistVars, schemaVars, cancel_requested, lessonVars,
                   registryVars, iteration, resp, has_tool_calls,
                   final_text, requests, api_error, chats>>

Agent_reset ==
    /\ impl = "agent" /\ pc = "idle"
    /\ messages' = clear(messages)
    /\ lastOp' = "reset"
    /\ UNCHANGED <<configVars, persistVars, schemaVars, runVars, lessonVars, registryVars, pc, loopVars, outcome, chats>>

----------------------------------------------------------------------------
(* Responses API items (src/agents.py, AgentSync, the tutorial agent) *)

\* an output item of type "message"; text is None when it carries no text part
OutputMessage(text) ==
    Turn("assistant", "message", 0, None, None, text, <<>>, NoPayload)

\* an output item of type "function_call"
FunctionCall(inv) ==
    Turn(None, "function_call", inv.call_id, inv.name, inv.arguments, None, <<>>,
         NoPayload)

\* {"type": "function_call_output", "call_id": id, "output": json}
FunctionCallOutput(call_id, payload) ==
    Turn(None, "function_call_output", call_id, None, None, None, <<>>, payload)

\* f"Error calling API: {str(e)}"
ErrorCallingAPI(e) == IF e = "timeout" THEN "Error calling API: timeout"
                      ELSE "Error calling API"

\* the texts a model can answer with
ModelTexts == {"", "ok", "Error calling API: timeout"}

\* response.output of client.responses.create, as src/agents.py meets it
AgentsOutputs ==
    { <<>>, <<OutputMessage("ok")>>, <<OutputMessage("Error calling API: timeout")>>,
      <<OutputMessage(None), OutputMessage("ok")>> }
    \cup { <<FunctionCall(call_echo)>>, <<FunctionCall(call_badjson)>>,
           <<FunctionCall(call_nope)>>,
           <<OutputMessage("ok"), FunctionCall(call_echo)>>,
           <<FunctionCall(call_nope), OutputMessage("ok"), FunctionCall(call_echo)>>,
           <<FunctionCall(call_echo), FunctionCall(call_nope_badjson)>> }

----------------------------------------------------------------------------
(* src/agents.py: ConversationMemory *)

add_system_message(items, content) == Append(items, RoleMessage("system", content))

add_user_message(items, content) == Append(items, RoleMessage("user", content))

\* as if only the function_call items of a response were recorded
add_response_output_calls_only(items, output) ==
    items \o SelectSeq(output, LAMBDA item : item.type = "function_call")

add_response_output(items, output) == items \o output

add_function_output(items, call_id, result) ==
    Append(items, FunctionCallOutput(call_id, result))

get_items(items) == items

\* ConversationMemory.clear: item.get("role") == "system"
Memory_clear(items) == SelectSeq(items, LAMBDA item : item.role = "system")

----------------------------------------------------------------------------
(* src/agents.py: Agent *)

\* Agent.register_tool: ValueError when func has no 'tool' attribute
Agents_register_tool(func) ==
    /\ impl \in {"agents", "memory"} /\ pc = "idle"
    /\ chats = 0
    /\ IF func.decorated
       THEN tools' = DictSet(tools, func.name, func) /\ outcome' = Return(None)
       ELSE tools' = tools /\ outcome' = Raise("ValueError")
    /\ lastOp' = "register_tool"
    /\ UNCHANGED <<configVars, persistVars, schemaVars, runVars, lessonVars, messages, tool_schemas, pc, loopVars, chats>>

\* the registry after 'for func in funcs: self.register_tool(func)': the loop
\* ends at the first function register_tool rejects
RECURSIVE RegisterEach(_, _)
RegisterEach(reg, funcs) ==
    IF funcs = <<>> \/ ~Head(funcs).decorated THEN reg
    ELSE RegisterEach(DictSet(reg, Head(funcs).name, Head(funcs)), Tail(funcs))

\* Agent.register_tools
Agents_register_tools(funcs) ==
    /\ impl \in {"agents", "memory"} /\ pc = "idle"
    /\ chats = 0
    /\ tools' = RegisterEach(tools, funcs)
    /\ outcome' = IF \A i \in 1..Len(funcs) : funcs[i].decorated
                  THEN Return(None) ELSE Raise("ValueError")
    /\ lastOp' = "register_tools"
    /\ UNCHANGED <<configVars, persistVars, schemaVars, runVars, lessonVars, messages, tool_schemas, pc,
                   loopVars, chats>>

\* Agent._execute_tool
Agents_execute_tool(reg, function_call) ==
    IF function_call.name \notin DOMAIN reg
    THEN ErrorPayload("not found", function_call.name)
    ELSE LET args == json_loads(function_call.arguments)
         IN  IF ~args.ok THEN ErrorPayload("str(e)", None)
             ELSE IF CallFunc(reg[function_call.name], args) /= None
             THEN ErrorPayload("str(e)", None)
             ELSE ResultPayload

_has_function_calls(output) ==
    \E i \in 1..Len(output) : output[i].type = "function_call"

\* the text of the first message item that has one
_extract_text_response(output) ==
    LET texts == SelectSeq(output,
                     LAMBDA item : item.type = "message" /\ item.content /= None)
    IN  IF texts = <<>> THEN "No response generated" ELSE texts[1].content

\* index of the first function_call item of output after position i, 0 if none
NextFunctionCall(output, i) ==
    LET later == {j \in (i + 1)..Len(output) : output[j].type = "function_call"}
    IN  IF later = {} THEN 0 ELSE CHOOSE j \in later : \A k \in later : j <= k

\* Agent.chat up to the first completion request
Agents_chat(message) ==
    /\ impl = "agents" /\ pc = "idle"
    /\ chats < MaxChats /\ Len(messages) <= MaxHistory
    /\ messages' = add_user_message(messages, message)
    /\ iteration' = 0
    /\ requests' = 0
    /\ api_error' = None
    /\ outcome' = NoOutcome
    /\ pc' = "loop"
    /\ chats' = chats + 1
    /\ lastOp' = "chat"
    /\ UNCHANGED <<configVars, persistVars, schemaVars, runVars, lessonVars, registryVars, resp, idx, has_tool_calls, final_text>>

\* one pass of 'for iteration in range(self.max_iterations)' up to the tool
\* calls: the request is answered
Agents_loop_response(output) ==
    /\ impl \in {"agents", "memory"} /\ pc = "loop"
    /\ iteration < max_iterations
    /\ requests' = requests + 1
    /\ resp' = output
    /\ messages' = add_response_output(get_items(messages), output)
    /\ IF ~_has_function_calls(output)
       THEN /\ outcome' = Return(_extract_text_response(output))
            /\ pc' = "idle"
            /\ UNCHANGED idx
       ELSE /\ idx' = NextFunctionCall(output, 0)
            /\ pc' = "tools"
            /\ UNCHANGED outcome
    /\ lastOp' = "chat"
    /\ UNCHANGED <<configVars, persistVars, schemaVars, runVars, lessonVars, registryVars, iteration, has_tool_calls, final_text,
                   api_error, chats>>

\* the request raises: chat() returns a string
Agents_loop_request_fails(e) ==
    /\ impl \in {"agents", "memory"} /\ pc = "loop"
    /\ iteration < max_iterations
    /\ requests' = requests + 1
    /\ api_error' = e
    /\ outcome' = Return(ErrorCallingAPI(e))
    /\ pc' = "idle"
    /\ lastOp' = "chat"
    /\ UNCHANGED <<configVars, persistVars, schemaVars, runVars, lessonVars, registryVars, messages, iteration, resp, idx,
                   has_tool_calls, final_text, chats>>

\* range(self.max_iterations) is used up
Agents_loop_exhausted ==
    /\ impl \in {"agents", "memory"} /\ pc = "loop"
    /\ ~(iteration < max_iterations)
    /\ outcome' = OnExhaustion(impl)
    /\ pc' = "idle"
    /\ lastOp' = "chat"
    /\ UNCHANGED <<configVars, persistVars, schemaVars, runVars, lessonVars, registryVars, messages, loopVars, chats>>

\* one function_call item of 'for item in response.output'
Agents_loop_tool_call ==
    /\ impl \in {"agents", "memory"} /\ pc = "tools"
    /\ LET item == resp[idx]
           result == Agents_execute_tool(tools, item)
       IN  IF result.key = "raised"
           THEN /\ outcome' = Raise(result.cat)
                /\ pc' = "idle"
                /\ UNCHANGED <<messages, idx, iteration>>
           ELSE /\ messages' = add_function_output(messages, item.call_id, result)
                /\ IF NextFunctionCall(resp, idx) /= 0
                   THEN /\ idx' = NextFunctionCall(resp, idx)
                        /\ pc' = "tools"
                        /\ UNCHANGED iteration
                   ELSE /\ idx' = idx
                        /\ pc' = "loop"
                        /\ iteration' = iteration + 1
                /\ UNCHANGED outcome
    /\ lastOp' = "chat"
    /\ UNCHANGED <<configVars, persistVars, schemaVars, runVars, lessonVars, registryVars, resp, has_tool_calls, final_text,
                   requests, api_error, chats>>

Agents_reset ==
    /\ impl \in {"agents", "memory"} /\ pc = "idle"
    /\ messages' = Memory_clear(messages)
    /\ lastOp' = "reset"
    /\ UNCHANGED <<configVars, persistVars, schemaVars, runVars, lessonVars, registryVars, pc, loopVars, outcome, chats>>

----------------------------------------------------------------------------
(* 10-advanced-memory/example.py: AgentWithMemory *)

\* len(self.tokenizer.encode(text)) for the texts that occur
Encode(text) ==
    CASE text = "be brief" -> 2
      [] text = "hi" -> 1
      [] OTHER -> 3

\* AgentWithMemory._count_tokens: a str "content", else a str "output", plus
\* 4 per item; the content of an output message item is a list, not a str
_count_tokens(items) ==
    LET cost(item) ==
            (IF item.type = None /\ item.content /= None THEN Encode(item.content)
             ELSE IF item.type = "function_call_output" THEN Encode("output")
             ELSE 0) + 4
        sum[i \in 0..Len(items)] == IF i = 0 THEN 0 ELSE sum[i - 1] + cost(items[i])
    IN  sum[Len(items)]

\* as if the loop ran while the count is >= the limit
RECURSIVE PopOldest_at_limit(_, _, _)
PopOldest_at_limit(system_messages, other_messages, limit) ==
    IF _count_tokens(system_messages \o other_messages) >= limit
       /\ other_messages /= <<>>
    THEN PopOldest_at_limit(system_messages, Tail(other_messages), limit)
    ELSE other_messages

\* the while loop of _trim_history: other_messages.pop(0) until the rest fits
RECURSIVE PopOldest(_, _, _)
PopOldest(system_messages, other_messages, limit) ==
    IF _count_tokens(system_messages \o other_messages) > limit
       /\ other_messages /= <<>>
    THEN PopOldest(system_messages, Tail(other_messages), limit)
    ELSE other_messages

\* AgentWithMemory._trim_history: the new memory.items
_trim_history(items, limit) ==
    IF _count_tokens(items) <= limit THEN items
    ELSE LET system_messages == SelectSeq(items, LAMBDA msg : msg.role = "system")
             other_messages == SelectSeq(items, LAMBDA msg : msg.role /= "system")
         IN  system_messages \o PopOldest(system_messages, other_messages, limit)

\* the local 'items' of _trim_history: bound to memory.get_items() once the
\* early return is passed
TrimLocalItems(memory_items, limit, old) ==
    IF _count_tokens(memory_items) <= limit THEN old ELSE memory_items

\* AgentWithMemory.chat up to the first completion request
AgentWithMemory_chat(message) ==
    /\ impl = "memory" /\ pc = "idle"
    /\ chats < MaxChats /\ Len(messages) <= MaxHistory
    /\ messages' = add_user_message(_trim_history(messages, max_history_tokens),
                                    message)
    /\ local_items' = TrimLocalItems(messages, max_history_tokens, local_items)
    /\ iteration' = 0
    /\ requests' = 0
    /\ api_error' = None
    /\ outcome' = NoOutcome
    /\ pc' = "loop"
    /\ chats' = chats + 1
    /\ lastOp' = "chat"
    /\ UNCHANGED <<configVars, file, schemaVars, runVars, lessonVars, registryVars, resp, idx,
                   has_tool_calls, final_text>>

\* AgentWithMemory._trim_history, called on its own
AgentWithMemory_trim_history ==
    /\ impl = "memory" /\ pc = "idle"
    /\ messages' = _trim_history(messages, max_history_tokens)
    /\ local_items' = TrimLocalItems(messages, max_history_tokens, local_items)
    /\ outcome' = Return(None)
    /\ lastOp' = "trim"
    /\ UNCHANGED <<configVars, file, schemaVars, runVars, lessonVars, registryVars, pc, loopVars, chats>>

\* an item that add_response_output took from response.output: an object of
\* the SDK, read by attribute (src/agents.py:265, 310), not a dict
IsSdkObject(item) == item.type \in {"message", "function_call"}

\* the keys of a dict item: {"role", "content"} as add_system_message and
\* add_user_message build it, {"type", "call_id", "output"} as
\* add_function_output builds it
DictKeys(item) ==
    IF item.type = "function_call_output" THEN {"type", "call_id", "output"}
    ELSE {"role", "content"}

\* json.dump of one dict item: the JSON object written
JsonObject(item) ==
    [k \in DictKeys(item) |->
        CASE k = "role" -> item.role
          [] k = "content" -> item.content
          [] k = "type" -> item.type
          [] k = "call_id" -> item.call_id
          [] k = "output" -> item.payload]

\* json.load of one JSON object: the dict item, absent keys read as None
FromJsonObject(obj) ==
    LET get(k, default) == IF k \in DOMAIN obj THEN obj[k] ELSE default
    IN  Turn(get("role", None), get("type", None), get("call_id", 0), None, None,
             get("content", None), <<>>, get("output", NoPayload))

\* index of the first item json.dump cannot encode, 0 when there is none
FirstUnserializable(memory_items) ==
    LET bad == {i \in 1..Len(memory_items) : IsSdkObject(memory_items[i])}
    IN  IF bad = {} THEN 0 ELSE CHOOSE i \in bad : \A j \in bad : i <= j

\* open(filepath, "w") and json.dump(items, f, indent=2): the encoder writes
\* item after item and raises TypeError at the first object it cannot encode,
\* which leaves a truncated file
JsonDump(memory_items) ==
    LET stop == FirstUnserializable(memory_items)
        written == IF stop = 0 THEN Len(memory_items) ELSE stop - 1
    IN  [exists |-> TRUE, complete |-> stop = 0,
         items |-> [i \in 1..written |-> JsonObject(memory_items[i])]]

\* json.load(f) of a complete file: the list of dicts
JsonLoad(f) == [i \in 1..Len(f.items) |-> FromJsonObject(f.items[i])]

\* AgentWithMemory.save_conversation; one save per behaviour is explored
AgentWithMemory_save_conversation ==
    /\ impl = "memory" /\ pc = "idle"
    /\ ~file.exists
    /\ file' = JsonDump(get_items(messages))
    /\ outcome' = IF file'.complete THEN Return(None) ELSE Raise("TypeError")
    /\ lastOp' = "save"
    /\ UNCHANGED <<configVars, local_items, schemaVars, runVars, lessonVars, registryVars, messages, pc, loopVars,
                   chats>>

\* AgentWithMemory.load_conversation: json.load raises JSONDecodeError on a
\* truncated file before memory.items is assigned
AgentWithMemory_load_conversation ==
    /\ impl = "memory" /\ pc = "idle"
    /\ file.exists
    /\ IF file.complete
       THEN messages' = JsonLoad(file) /\ outcome' = Return(None)
       ELSE messages' = messages /\ outcome' = Raise("JSONDecodeError")
    /\ lastOp' = "load"
    /\ UNCHANGED <<configVars, persistVars, schemaVars, runVars, lessonVars, registryVars, pc, loopVars,
                   chats>>

----------------------------------------------------------------------------
(* src/src/agent_sync.py: AgentSync; 09-agent-architecture/tutorial.py: Agent *)

\* response.output as AgentSync and the tutorial agent meet it; the first
\* request of a run draws from the larger set
SyncOutputs(name, first) ==
    LET call == Invocation(1, name, ArgsOk)
    IN  { <<OutputMessage("ok")>>, <<FunctionCall(call)>> }
        \cup
        IF first
        THEN { <<>>, <<OutputMessage("")>>, <<OutputMessage(None)>>,
               <<FunctionCall(Invocation(3, name, ArgsBadJson))>>,
               <<FunctionCall(Invocation(2, name, ArgsBadKw))>>,
               <<FunctionCall(Invocation(6, name, None))>>,
               <<FunctionCall(call_nope)>>,
               <<OutputMessage("ok"), FunctionCall(call)>>,
               <<FunctionCall(call), OutputMessage("ok")>>,
               <<OutputMessage("ok"), OutputMessage(None)>> }
        ELSE {}

\* the registry of the tutorial: TOOLS
get_weather == [name |-> "get_weather", ver |-> 1, raises |-> FALSE, decorated |-> FALSE,
    returns |-> "str"]
get_time == [name |-> "get_time", ver |-> 1, raises |-> FALSE, decorated |-> FALSE,
    returns |-> "str"]
TOOLS == [n \in {"get_weather", "get_time"} |->
             IF n = "get_weather" THEN get_weather ELSE get_time]

AgentSync_add_tool(func) ==
    /\ impl = "sync" /\ pc = "idle"
    /\ chats = 0
    /\ tools' = DictSet(tools, ToolName(func), func)
    /\ outcome' = Return("self")
    /\ lastOp' = "register_tool"
    /\ UNCHANGED <<configVars, persistVars, schemaVars, runVars, lessonVars, messages, tool_schemas, pc, loopVars, chats>>

\* the "type: message" of an exception caught by 'except Exception as e'
ExceptionPayload(e) == ErrorPayload(e, None)

\* a function that returns a set, which json.dumps rejects with TypeError
echo_set == [name |-> "echo", ver |-> 3, raises |-> FALSE, decorated |-> TRUE,
    returns |-> "set"]

\* whether json.dumps({"result": result}) accepts what func returns
Serializable(func) == func.returns /= "set"

\* as if json.loads stood before the try
AgentSync_call_tool_parse_outside_try(reg, call) ==
    IF call.name \notin DOMAIN reg
    THEN ErrorPayload("not found", call.name)
    ELSE LET args == json_loads(IF call.arguments \in {None, ""} THEN ArgsEmpty
                                ELSE call.arguments)
         IN  IF ~args.ok THEN Raised("JSONDecodeError")
             ELSE LET raised == CallFunc(reg[call.name], args)
                  IN  IF raised /= None THEN ExceptionPayload(raised)
                      ELSE IF ~Serializable(reg[call.name])
                      THEN ExceptionPayload("TypeError")
                      ELSE ResultPayload

\* AgentSync._call_tool: json.loads, the call and json.dumps are all inside
\* the try
AgentSync_call_tool(reg, call) ==
    IF call.name \notin DOMAIN reg
    THEN ErrorPayload("not found", call.name)
    ELSE LET args == json_loads(IF call.arguments \in {None, ""} THEN ArgsEmpty
                                ELSE call.arguments)
         IN  IF ~args.ok THEN ExceptionPayload("JSONDecodeError")
             ELSE LET raised == CallFunc(reg[call.name], args)
                  IN  IF raised /= None THEN ExceptionPayload(raised)
                      ELSE IF ~Serializable(reg[call.name])
                      THEN ExceptionPayload("TypeError")
                      ELSE ResultPayload

\* Agent._execute_tool of the tutorial: json.loads(None) raises TypeError
Tutorial_execute_tool(reg, function_call) ==
    IF function_call.name \notin DOMAIN reg
    THEN ErrorPayload("not found", function_call.name)
    ELSE IF function_call.arguments = None THEN ExceptionPayload("TypeError")
    ELSE LET args == json_loads(function_call.arguments)
         IN  IF ~args.ok THEN ExceptionPayload("JSONDecodeError")
             ELSE LET raised == CallFunc(reg[function_call.name], args)
                  IN  IF raised /= None THEN ExceptionPayload(raised)
                      ELSE ResultPayload

\* Python truthiness of final_text
Truthy(text) == text /= None /\ text /= ""

\* the 'if not has_tool_calls and final_text' test after the last output item
EndOfTurn(calls, text) ==
    IF ~calls /\ Truthy(text)
    THEN /\ outcome' = Return(text)
         /\ pc' = "idle"
         /\ UNCHANGED iteration
    ELSE /\ iteration' = iteration + 1
         /\ pc' = "loop"
         /\ UNCHANGED outcome

\* a response arrives: the locals of the pass are set
LoopResponse(output) ==
    /\ requests' = requests + 1
    /\ resp' = output
    /\ idx' = 1
    /\ has_tool_calls' = FALSE
    /\ final_text' = None
    /\ IF output = <<>>
       THEN EndOfTurn(FALSE, None)
       ELSE pc' = "items" /\ UNCHANGED <<iteration, outcome>>
    /\ lastOp' = "chat"
    /\ UNCHANGED <<configVars, persistVars, schemaVars, runVars, lessonVars, registryVars, messages, api_error, chats>>

\* one pass of 'for item in response.output'; result is the tool's payload
\* when the item is a function_call
LoopItem(result) ==
    LET item == resp[idx]
        text == IF item.type = "message" /\ item.content /= None
                THEN item.content ELSE final_text
        calls == has_tool_calls \/ item.type = "function_call"
    IN  /\ final_text' = text
        /\ has_tool_calls' = calls
        /\ messages' =
             IF item.type = "message"
             THEN Append(messages,
                         RoleMessage("assistant", IF Truthy(text) THEN text ELSE ""))
             ELSE messages \o <<item, FunctionCallOutput(item.call_id, result)>>
        /\ IF idx < Len(resp)
           THEN idx' = idx + 1 /\ pc' = "items" /\ UNCHANGED <<iteration, outcome>>
           ELSE idx' = idx /\ EndOfTurn(calls, text)
        /\ lastOp' = "chat"
        /\ UNCHANGED <<configVars, persistVars, schemaVars, runVars, lessonVars, registryVars, resp, requests, api_error, chats>>

\* the request raises: nothing catches it
LoopRequestFails(e) ==
    /\ requests' = requests + 1
    /\ api_error' = e
    /\ outcome' = Raise(e)
    /\ pc' = "idle"
    /\ lastOp' = "chat"
    /\ UNCHANGED <<configVars, persistVars, schemaVars, runVars, lessonVars, registryVars, messages, iteration, resp, idx,
                   has_tool_calls, final_text, chats>>

\* AgentSync.run in regular mode, up to the first completion request
AgentSync_run(message) ==
    /\ impl = "sync" /\ pc = "idle"
    /\ chats < MaxChats /\ Len(messages) <= MaxHistory
    /\ messages' = Append(messages, RoleMessage("user", message))
    /\ iteration' = 0
    /\ requests' = 0
    /\ api_error' = None
    /\ outcome' = NoOutcome
    /\ pc' = "loop"
    /\ chats' = chats + 1
    /\ lastOp' = "chat"
    /\ UNCHANGED <<configVars, persistVars, schemaVars, runVars, lessonVars, registryVars, resp, idx, has_tool_calls, final_text>>

AgentSync_loop_response(output) ==
    /\ impl = "sync" /\ pc = "loop"
    /\ iteration < max_turns
    /\ LoopResponse(output)

AgentSync_loop_request_fails(e) ==
    /\ impl = "sync" /\ pc = "loop"
    /\ iteration < max_turns
    /\ LoopRequestFails(e)

AgentSync_loop_item ==
    /\ impl = "sync" /\ pc = "items"
    /\ LoopItem(AgentSync_call_tool(tools, resp[idx]))

\* range(max_turns) is used up
AgentSync_loop_exhausted ==
    /\ impl = "sync" /\ pc = "loop"
    /\ ~(iteration < max_turns)
    /\ outcome' = OnExhaustion(impl)
    /\ pc' = "idle"
    /\ lastOp' = "chat"
    /\ UNCHANGED <<configVars, persistVars, schemaVars, runVars, lessonVars, registryVars, messages, loopVars, chats>>

AgentSync_reset ==
    /\ impl = "sync" /\ pc = "idle"
    /\ messages' = SelectSeq(messages, LAMBDA m : m.role = "system")
    /\ lastOp' = "reset"
    /\ UNCHANGED <<configVars, persistVars, schemaVars, runVars, lessonVars, registryVars, pc, loopVars, outcome, chats>>

\* Agent.run of the tutorial, up to the first completion request
Tutorial_run(user_message, n) ==
    /\ impl = "tutorial" /\ pc = "idle"
    /\ chats < MaxChats /\ Len(messages) <= MaxHistory
    /\ messages' = Append(messages, RoleMessage("user", user_message))
    /\ max_iterations' = n
    /\ iteration' = 0
    /\ requests' = 0
    /\ api_error' = None
    /\ outcome' = NoOutcome
    /\ pc' = "loop"
    /\ chats' = chats + 1
    /\ lastOp' = "chat"
    /\ UNCHANGED <<impl, max_history_tokens, persistVars, schemaVars, runVars, lessonVars, registryVars, resp, idx, has_tool_calls,
                   final_text>>

Tutorial_loop_response(output) ==
    /\ impl = "tutorial" /\ pc = "loop"
    /\ iteration < max_iterations
    /\ LoopResponse(output)

Tutorial_loop_request_fails(e) ==
    /\ impl = "tutorial" /\ pc = "loop"
    /\ iteration < max_iterations
    /\ LoopRequestFails(e)

Tutorial_loop_item ==
    /\ impl = "tutorial" /\ pc = "items"
    /\ LoopItem(Tutorial_execute_tool(TOOLS, resp[idx]))

\* range(max_iterations) is used up
Tutorial_loop_exhausted ==
    /\ impl = "tutorial" /\ pc = "loop"
    /\ ~(iteration < max_iterations)
    /\ outcome' = OnExhaustion(impl)
    /\ pc' = "idle"
    /\ lastOp' = "chat"
    /\ UNCHANGED <<configVars, persistVars, schemaVars, runVars, lessonVars, registryVars, messages, loopVars, chats>>

Tutorial_reset ==
    /\ impl = "tutorial" /\ pc = "idle"
    /\ messages' = <<>>
    /\ lastOp' = "reset"
    /\ UNCHANGED <<configVars, persistVars, schemaVars, runVars, lessonVars, registryVars, pc, loopVars, outcome, chats>>

----------------------------------------------------------------------------
SystemPrompts == {None, "be brief"}

\* ConversationMemory.__init__ of both memories
InitialMemory(system_prompt) ==
    IF system_prompt = None THEN <<>> ELSE <<RoleMessage("system", system_prompt)>>

\* max_history_tokens of the AgentWithMemory objects explored
HistoryBudgets == {7, 12}

\* the default of run()'s max_iterations in the tutorial
default_max_iterations == 5

\* no tool entered, no cancellation asked for
RunInit == started = {} /\ finished = {} /\ cancel_requested = FALSE

\* no server, workflow or calculator in play
FlowInit == steps = <<>> /\ step_idx = 1 /\ state = None /\ returned = None /\ rounds = 0

LessonInit == sessions = <<>> /\ inflight = <<>> /\ FlowInit /\ calc = None

Init ==
    /\ impl \in {"agent", "agents", "memory", "sync", "tutorial"}
    /\ max_iterations \in
         CASE impl = "sync" -> {max_turns}
           [] impl = "tutorial" -> {default_max_iterations}
           [] OTHER -> 0..MaxIter
    /\ max_history_tokens \in (IF impl = "memory" THEN HistoryBudgets ELSE {0})
    /\ \E system_prompt \in SystemPrompts :
         messages = IF impl = "tutorial" THEN <<>> ELSE InitialMemory(system_prompt)
    /\ tools = <<>>
    /\ tool_schemas = <<>>
    /\ pc = "idle"
    /\ iteration = 0
    /\ resp = <<>>
    /\ idx = 1
    /\ has_tool_calls = FALSE
    /\ final_text = None
    /\ outcome = NoOutcome
    /\ requests = 0
    /\ api_error = None
    /\ chats = 0
    /\ lastOp = "init"
    /\ file = NoFile
    /\ local_items = <<>>
    /\ fn = None
    /\ tool_obj = None
    /\ RunInit
    /\ LessonInit

Next ==
    \/ \E func \in Funcs : Agent_register_tool(func)
    \/ \E funcs \in {b \in FuncBatches : \A i \in 1..Len(b) : b[i] \in Funcs} :
          Agent_register_tools(funcs)
    \/ \E message \in UserMessages : Agent_chat(message)
    \/ Agent_memory_add_message("system", "be kind")
    \/ \E message \in AgentResponses : Agent_loop_response(message)
    \/ \E e \in ApiErrors : Agent_loop_request_fails(e)
    \/ Agent_loop_exhausted
    \/ Agent_loop_tool_call
    \/ Agent_reset
    \/ \E func \in Funcs \cup {plain} : Agents_register_tool(func)
    \/ \E funcs \in FuncBatches : Agents_register_tools(funcs)
    \/ \E message \in UserMessages : Agents_chat(message)
    \/ \E message \in UserMessages : AgentWithMemory_chat(message)
    \/ \E output \in AgentsOutputs : Agents_loop_response(output)
    \/ \E e \in ApiErrors : Agents_loop_request_fails(e)
    \/ Agents_loop_exhausted
    \/ Agents_loop_tool_call
    \/ Agents_reset
    \/ \E func \in Funcs : AgentSync_add_tool(func)
    \/ \E message \in UserMessages : AgentSync_run(message)
    \/ \E output \in SyncOutputs("echo", requests = 0) : AgentSync_loop_response(output)
    \/ \E e \in ApiErrors : AgentSync_loop_request_fails(e)
    \/ AgentSync_loop_item
    \/ AgentSync_loop_exhausted
    \/ AgentSync_reset
    \/ \E message \in UserMessages, n \in (0..MaxIter) \cup {default_max_iterations} :
          Tutorial_run(message, n)
    \/ \E output \in SyncOutputs("get_weather", requests = 0) :
          Tutorial_loop_response(output)
    \/ \E e \in ApiErrors : Tutorial_loop_request_fails(e)
    \/ Tutorial_loop_item
    \/ Tutorial_loop_exhausted
    \/ Tutorial_reset

Spec == Init /\ [][Next]_vars

----------------------------------------------------------------------------
(* The memory operations of AgentWithMemory on their own: trimming, saving
   and loading, from every memory of up to MaxItems items *)

MaxItems == 4       \* items in the memory the operations start from
MaxBudget == 12     \* max_history_tokens ranges over 0..MaxBudget

\* what memory.items can hold: the dicts of add_system_message,
\* add_user_message and add_function_output, and the output items that
\* add_response_output takes from a response
MemoryItems ==
    { RoleMessage("system", "be brief"), RoleMessage("user", "hi"),
      OutputMessage("ok"), FunctionCall(call_echo),
      FunctionCallOutput(1, ResultPayload) }

ItemLists == UNION { [1..n -> MemoryItems] : n \in 0..MaxItems }

\* AgentWithMemory(system_prompt=...): a fresh agent object; the file stays
AgentWithMemory_init(system_prompt) ==
    /\ impl = "memory" /\ pc = "idle"
    /\ lastOp /= "new"
    /\ messages' = InitialMemory(system_prompt)
    /\ local_items' = <<>>
    /\ outcome' = NoOutcome
    /\ lastOp' = "new"
    /\ UNCHANGED <<configVars, file, schemaVars, runVars, lessonVars, registryVars, pc, loopVars, chats>>

\* an AgentWithMemory whose memory holds any list of items
MemoryInit ==
    /\ impl = "memory"
    /\ max_iterations = 0
    /\ max_history_tokens \in 0..MaxBudget
    /\ messages \in ItemLists
    /\ tools = <<>>
    /\ tool_schemas = <<>>
    /\ pc = "idle"
    /\ iteration = 0
    /\ resp = <<>>
    /\ idx = 1
    /\ has_tool_calls = FALSE
    /\ final_text = None
    /\ outcome = NoOutcome
    /\ requests = 0
    /\ api_error = None
    /\ chats = 0
    /\ lastOp = "init"
    /\ file = NoFile
    /\ local_items = <<>>
    /\ fn = None
    /\ tool_obj = None
    /\ RunInit
    /\ LessonInit

MemoryNext ==
    \/ AgentWithMemory_trim_history
    \/ AgentWithMemory_save_conversation
    \/ AgentWithMemory_load_conversation
    \/ \E system_prompt \in SystemPrompts : AgentWithMemory_init(system_prompt)

MemorySpec == MemoryInit /\ [][MemoryNext]_vars

----------------------------------------------------------------------------
(* src/src/tool.py: Tool.from_function on its own, over the signatures of up
   to MaxParams parameters *)

MaxParams == 2      \* parameters of the function handed to Tool.from_function

\* inspect.Parameter.empty: the default of a parameter that has none
empty == "empty"

ParamNames == {"a", "b", "c"}
\* the annotation of a parameter; empty when it has none
Annotations == {"str", "int", "float", "bool", "list", "dict", empty}
\* the default of a parameter: none, None, or a str
Defaults == {empty, None, "0"}

Parameters == [name : ParamNames, annotation : Annotations, default : Defaults]

\* sig.parameters of the functions explored: the names of one signature differ
Signatures ==
    { sig \in UNION { [1..n -> Parameters] : n \in 0..MaxParams } :
        \A i, j \in 1..Len(sig) : sig[i].name = sig[j].name => i = j }

\* the functions explored: doc is inspect.getdoc(func)
Functions == [name : {"f"}, doc : {None, "Does f."}, parameters : Signatures]

\* as if every parameter were appended to required
from_function_all_required(func) ==
    [name |-> func.name,
     description |-> IF func.doc = None THEN "" ELSE func.doc,
     parameters |->
        [type |-> "object",
         properties |-> [n \in {func.parameters[i].name : i \in 1..Len(func.parameters)}
                            |-> [type |-> "string"]],
         required |-> [i \in 1..Len(func.parameters) |-> func.parameters[i].name]]]

\* Tool.from_function: every parameter gets {"type": "string"}; its name is
\* appended to required when param.default == inspect.Parameter.empty
from_function(func) ==
    LET withoutDefault ==
            SelectSeq(func.parameters, LAMBDA param : param.default = empty)
    IN  [name |-> func.name,
         description |-> IF func.doc = None THEN "" ELSE func.doc,
         parameters |->
            [type |-> "object",
             properties |-> [n \in {func.parameters[i].name : i \in 1..Len(func.parameters)}
                                |-> [type |-> "string"]],
             required |-> [i \in 1..Len(withoutDefault) |-> withoutDefault[i].name]]]

\* a call Tool.from_function(fn)
Tool_from_function ==
    /\ lastOp = "init"
    /\ tool_obj' = from_function(fn)
    /\ outcome' = Return("Tool")
    /\ lastOp' = "from_function"
    /\ UNCHANGED <<configVars, persistVars, fn, runVars, lessonVars, registryVars, messages, pc, loopVars,
                   chats>>

ToolInit ==
    /\ impl = "tool"
    /\ max_iterations = 0
    /\ max_history_tokens = 0
    /\ messages = <<>>
    /\ tools = <<>>
    /\ tool_schemas = <<>>
    /\ pc = "idle"
    /\ iteration = 0
    /\ resp = <<>>
    /\ idx = 1
    /\ has_tool_calls = FALSE
    /\ final_text = None
    /\ outcome = NoOutcome
    /\ requests = 0
    /\ api_error = None
    /\ chats = 0
    /\ lastOp = "init"
    /\ file = NoFile
    /\ local_items = <<>>
    /\ fn \in Functions
    /\ tool_obj = None
    /\ RunInit
    /\ LessonInit

ToolNext == Tool_from_function

ToolSpec == ToolInit /\ [][ToolNext]_vars

----------------------------------------------------------------------------
(* Vocabulary of the properties *)

\* a chat()/run() call has ended and nothing was called since
CallEnded == pc = "idle" /\ lastOp = "chat"

\* the ceiling of the loop of the agent object
Ceiling == IF impl = "sync" THEN max_turns ELSE max_iterations

IsInvocation(turn, call_id) ==
    \/ turn.type = "function_call" /\ turn.call_id = call_id
    \/ /\ turn.role = "assistant"
       /\ \E k \in 1..Len(turn.tool_calls) : turn.tool_calls[k].call_id = call_id

IsToolResult(turn) == turn.role = "tool" \/ turn.type = "function_call_output"

\* the turns a step appended to memory
Appended == SubSeq(messages', Len(messages) + 1, Len(messages'))

----------------------------------------------------------------------------
(* C1 Iteration ceiling: one Agent.chat() call of src/src/agent.py and one
   AgentSync.run() call issue at most n completion requests, n being
   max_iterations and max_turns = 10; a call that ends without a transport
   error either returns after a response that asked for no tool, or raises
   RuntimeError after exactly n requests, so a model that asks for a tool in
   every response gets exactly n requests and a RuntimeError. *)
C1_IterationCeiling ==
    impl \in {"agent", "sync"} =>
        /\ requests <= Ceiling
        /\ (CallEnded /\ api_error = None) =>
              \/ /\ outcome.kind = "return"
                 /\ messages[Len(messages)].role = "assistant"
                 /\ messages[Len(messages)].tool_calls = <<>>
                 /\ impl = "sync" => ~has_tool_calls
              \/ /\ outcome = Raise("RuntimeError")
                 /\ requests = Ceiling
                 /\ Ceiling > 0 => IsToolResult(messages[Len(messages)])
                                   \/ impl = "sync"

\* the ceiling is reached by tool calls alone and the call raises
C1_Witness ==
    /\ impl = "agent" /\ CallEnded
    /\ max_iterations = MaxIter
    /\ requests = max_iterations
    /\ outcome = Raise("RuntimeError")
    /\ IsToolResult(messages[Len(messages)])

\* AgentSync.run raises after max_turns requests that all asked for a tool
C1_WitnessSync ==
    /\ impl = "sync" /\ CallEnded
    /\ requests = max_turns
    /\ outcome = Raise("RuntimeError")
    /\ has_tool_calls

----------------------------------------------------------------------------
(* C2 Tool failure does not abort: in Agent.chat of src/src/agent.py and
   src/agents.py a call of a registered tool that raises on every call appends
   a tool-result turn with the call's id and an error payload and leaves the
   call running; after the last tool call of a response the loop is back at
   the completion request; chat() raises only for exhaustion or a transport
   error; and a response without invocations ends the call, which returns the
   response's text. *)
RaisingToolCalled ==
    /\ pc = "tools"
    /\ LET call == IF impl = "agent" THEN resp.tool_calls[idx] ELSE resp[idx]
       IN  call.name \in DOMAIN tools /\ tools[call.name].raises

CurrentCallId ==
    IF impl = "agent" THEN resp.tool_calls[idx].call_id ELSE resp[idx].call_id

LastCallOfResponse ==
    IF impl = "agent" THEN idx = Len(resp.tool_calls)
    ELSE \A j \in (idx + 1)..Len(resp) : resp[j].type /= "function_call"

\* the text of a response: that of its first message that has one, else None
ResponseText(turns) ==
    LET withText == {k \in 1..Len(turns) :
                        turns[k].role = "assistant" /\ turns[k].content /= None}
    IN  IF withText = {} THEN None
        ELSE turns[CHOOSE k \in withText : \A m \in withText : k <= m].content

HasInvocation(turns) ==
    \E k \in 1..Len(turns) :
        turns[k].type = "function_call" \/ turns[k].tool_calls /= <<>>

C2_Step ==
    impl \in {"agent", "agents", "memory"} =>
        /\ RaisingToolCalled =>
              /\ Len(Appended) = 1
              /\ IsToolResult(Appended[1])
              /\ Appended[1].call_id = CurrentCallId
              /\ Appended[1].payload.key = "error"
              /\ outcome' = outcome
              /\ pc' = IF LastCallOfResponse THEN "loop" ELSE "tools"
        /\ (pc = "loop" /\ requests' = requests + 1 /\ api_error' = None) =>
              IF HasInvocation(Appended)
              THEN pc' = "tools" /\ outcome' = outcome
              ELSE /\ pc' = "idle"
                   /\ outcome'.kind = "return"
                   /\ ResponseText(Appended) /= None =>
                          outcome'.value = ResponseText(Appended)
        /\ (lastOp' = "chat" /\ outcome'.kind = "raise") =>
              outcome'.value \in {"RuntimeError"} \cup ApiErrors

C2_ToolFailureDoesNotAbort == [][C2_Step]_vars

\* the registered tool raised, its error went to memory under the call's id,
\* and a later response without invocations ended the call with its text
C2_Witness ==
    /\ impl = "agent" /\ CallEnded
    /\ "echo" \in DOMAIN tools /\ tools["echo"].raises
    /\ outcome = Return("ok")
    /\ Len(messages) >= 3
    /\ messages[Len(messages) - 1] =
           ToolMessage(call_echo.call_id, ErrorPayload("Tool execution failed", None))

----------------------------------------------------------------------------
(* C3 Call-id correlation: in the memory of an Agent of src/agents.py, trimmed
   by AgentWithMemory._trim_history, every tool-result item is preceded by an
   invocation item that carries the same call_id. *)
C3_CallIdCorrelation ==
    impl \in {"agents", "memory"} =>
        \A i \in 1..Len(messages) :
            IsToolResult(messages[i]) =>
                \E j \in 1..(i - 1) : IsInvocation(messages[j], messages[i].call_id)

----------------------------------------------------------------------------
(* C4 Final answer on no invocations: in AgentSync.run and in Agent.run of the
   tutorial a response without a function_call item ends the loop: no pass of
   the loop ends with the loop still running unless its response held a
   function_call, and the call returns the response's text. *)
C4_FinalOnNoInvocations ==
    impl \in {"sync", "tutorial"} =>
        /\ (pc = "loop" /\ requests > 0) => has_tool_calls
        /\ (CallEnded /\ outcome.kind = "return" /\ ~has_tool_calls /\ requests > 0) =>
              outcome.value = (IF final_text = None THEN "" ELSE final_text)

----------------------------------------------------------------------------
(* C5 Transport failure is surfaced: in Agent.chat of src/agents.py a
   completion request that raises ends the call with an outcome that no final
   text answer can produce, after that one request, with the user turn of the
   call as the last turn of memory. *)
\* what chat() hands back for a final answer of the model
FinalAnswers ==
    {Return(t) : t \in ModelTexts \cup {"No response generated"}}

C5_TransportFailureSurfaced ==
    (impl \in {"agents", "memory"} /\ api_error /= None) =>
        /\ CallEnded \/ lastOp = "reset"
        /\ outcome \notin FinalAnswers
        /\ messages /= <<>>
        /\ LET last == messages[Len(messages)]
           IN  last.role = "user" \/ IsToolResult(last)

----------------------------------------------------------------------------
(* C6 Memory is append-only between resets: every step of an Agent of
   src/src/agent.py other than reset() leaves the history it found as a prefix
   of the new history, so a completion request carries the turns of every
   earlier chat() call unchanged and in order. *)
C6_AppendOnly ==
    [][(impl = "agent" /\ lastOp' /= "reset") => IsPrefix(messages, messages')]_vars

\* the second chat() of a session is about to send a request that carries the
\* turns of the first
C6_Witness ==
    /\ impl = "agent" /\ pc = "loop" /\ chats = 2
    /\ Len(SelectSeq(messages, LAMBDA msg : msg.role = "user")) = 2
    /\ Len(SelectSeq(messages, LAMBDA msg : msg.role = "tool")) >= 1

----------------------------------------------------------------------------
(* C7 Reset: reset() on an Agent of src/src/agent.py and on an AgentSync
   leaves in memory exactly the system turns that were there, in their order,
   and leaves the registered tools as they were. *)
RECURSIVE SystemTurns(_)
SystemTurns(turns) ==
    IF turns = <<>> THEN <<>>
    ELSE IF Head(turns).role = "system"
         THEN <<Head(turns)>> \o SystemTurns(Tail(turns))
         ELSE SystemTurns(Tail(turns))

C7_Reset ==
    [][(impl \in {"agent", "sync"} /\ lastOp' = "reset") =>
          /\ messages' = SystemTurns(messages)
          /\ tools' = tools
          /\ tool_schemas' = tool_schemas]_vars

\* after a chat, reset left the two system turns, the constructor's and the
\* later one, in that order, and the tool registered
C7_Witness ==
    /\ impl = "agent" /\ lastOp = "reset"
    /\ chats >= 1
    /\ messages = <<RoleMessage("system", "be brief"), RoleMessage("system", "be kind")>>
    /\ DOMAIN tools /= {}

----------------------------------------------------------------------------
(* C8 Response turns are recorded in order: in Agent.chat of src/agents.py and
   src/src/agent.py every response, final or tool-calling, has all its turns
   appended to memory in the order received, and a tool-result turn is
   appended only when the turn of its invocation is already in memory. *)
C8_Step ==
    impl \in {"agent", "agents", "memory"} =>
        /\ (pc = "loop" /\ requests' = requests + 1 /\ api_error' = None) =>
              messages' = messages \o
                  (IF impl = "agent"
                   THEN <<AssistantMessage(resp'.content, resp'.tool_calls)>>
                   ELSE resp')
        /\ pc = "tools" =>
              \A k \in 1..Len(Appended) :
                  /\ IsToolResult(Appended[k])
                  /\ \E j \in 1..Len(messages) :
                        IsInvocation(messages[j], Appended[k].call_id)

C8_ResponseTurnsInOrder == [][C8_Step]_vars

\* a response of three items, a message between two function calls, is in
\* memory in that order when the result of its first call follows it
C8_Witness ==
    /\ impl = "agents" /\ pc = "tools" /\ idx = 3
    /\ Len(resp) = 3 /\ resp[2].type = "message"
    /\ Len(messages) >= 4
    /\ SubSeq(messages, Len(messages) - 3, Len(messages) - 1) = resp
    /\ messages[Len(messages)].type = "function_call_output"
    /\ messages[Len(messages)].call_id = resp[1].call_id

----------------------------------------------------------------------------
(* C9 One result per invocation, in issue order: in the memory of an Agent of
   src/src/agent.py an assistant turn with tool calls c1..cn is followed by
   the tool-result turns of c1..cn, in that order and each with a result or
   an error payload, and by no further tool-result turn; only while the calls
   of the last response are being executed are the results a proper prefix,
   so all n are in memory before the next completion request. *)
ResultsFollow(i, n) ==
    /\ i + n <= Len(messages)
    /\ \A k \in 1..n :
          /\ messages[i + k].role = "tool"
          /\ messages[i + k].call_id = messages[i].tool_calls[k].call_id
          /\ messages[i + k].payload.key \in {"result", "error"}

C9_OneResultPerInvocation ==
    impl = "agent" =>
        /\ \A i \in 1..Len(messages) :
              (messages[i].role = "assistant" /\ messages[i].tool_calls /= <<>>) =>
                  LET n == Len(messages[i].tool_calls)
                  IN  IF pc = "tools" /\ i + idx - 1 = Len(messages)
                      THEN ResultsFollow(i, idx - 1)
                      ELSE /\ ResultsFollow(i, n)
                           /\ i + n < Len(messages) => messages[i + n + 1].role /= "tool"
        /\ pc = "tools" =>
              /\ Len(messages) >= idx
              /\ messages[Len(messages) - idx + 1].role = "assistant"
              /\ messages[Len(messages) - idx + 1].tool_calls = resp.tool_calls

\* the next request is due after a response of three calls that ended in a
\* parse failure, a success and an argument error
C9_Witness ==
    /\ impl = "agent" /\ pc = "loop"
    /\ Len(messages) >= 4
    /\ messages[Len(messages) - 3].tool_calls = <<call_badjson, call_echo, call_badkw>>
    /\ messages[Len(messages) - 2].payload.key = "error"
    /\ messages[Len(messages) - 1].payload.key = "result"
    /\ messages[Len(messages)].payload.key = "error"

----------------------------------------------------------------------------
(* C10 Duplicate registration is rejected: a registration call (register_tool
   of src/src/agent.py and src/agents.py, AgentSync.add_tool) never replaces
   the callable registered under a name, never lists a name twice in the
   schema list, and fails when the name is taken. *)
C10_Step ==
    lastOp' = "register_tool" =>
        /\ \A name \in DOMAIN tools : tools'[name] = tools[name]
        /\ \A i, j \in 1..Len(tool_schemas') :
              tool_schemas'[i] = tool_schemas'[j] => i = j
        /\ tools' = tools => outcome'.kind = "raise"

C10_DuplicateRejected == [][C10_Step]_vars

----------------------------------------------------------------------------
(* src/src/agent_sync.py: AgentSync._call_tool on its own, for every registry
   and every call *)

\* self.tools: 'echo' absent or bound to one of three functions, 'get_weather'
\* absent or present
Registries ==
    { [n \in DOMAIN e \cup DOMAIN w |-> IF n \in DOMAIN e THEN e[n] ELSE w[n]] :
        e \in {<<>>} \cup { [n \in {"echo"} |-> f] : f \in {echo_ok, echo_raises, echo_set} },
        w \in {<<>>, [n \in {"get_weather"} |-> get_weather]} }

\* the function_call items handed to _call_tool
Calls ==
    { Invocation(1, n, a) :
        n \in {"echo", "get_weather", "nope"},
        a \in {ArgsOk, ArgsBadJson, ArgsBadKw, ArgsEmpty, None, ""} }

\* one call of agent._call_tool(call)
CallTool_call ==
    /\ impl = "sync" /\ lastOp = "init"
    /\ LET result == AgentSync_call_tool(tools, resp)
       IN  outcome' = IF result.key = "raised" THEN Raise(result.cat) ELSE Return(result)
    /\ lastOp' = "_call_tool"
    /\ UNCHANGED <<configVars, persistVars, schemaVars, runVars, lessonVars, registryVars,
                   messages, pc, loopVars, chats>>

CallToolInit ==
    /\ impl = "sync"
    /\ max_iterations = max_turns
    /\ max_history_tokens = 0
    /\ messages = <<>>
    /\ tools \in Registries
    /\ tool_schemas = <<>>
    /\ pc = "idle"
    /\ iteration = 0
    /\ resp \in Calls
    /\ idx = 1
    /\ has_tool_calls = FALSE
    /\ final_text = None
    /\ outcome = NoOutcome
    /\ requests = 0
    /\ api_error = None
    /\ chats = 0
    /\ lastOp = "init"
    /\ file = NoFile
    /\ local_items = <<>>
    /\ fn = None
    /\ tool_obj = None
    /\ RunInit
    /\ LessonInit

CallToolNext == CallTool_call

CallToolSpec == CallToolInit /\ [][CallToolNext]_vars

----------------------------------------------------------------------------
(* src/12-example-research-assistant/example.py: Agent *)

instructions == "You are a helpful assistant."

\* the content of a tool turn: str(result), or 'Tool not found: <name>'
TextPayload(cat, tool) == [key |-> "text", cat |-> cat, tool |-> tool]

\* the body of 'for tool_call in message_obj.tool_calls' up to the append:
\* nothing here is inside a try
Research_tool_result(reg, tool_call) ==
    IF tool_call.name \in DOMAIN reg
    THEN LET args == json_loads(tool_call.arguments)
         IN  IF ~args.ok THEN Raised("JSONDecodeError")
             ELSE LET raised == CallFunc(reg[tool_call.name], args)
                  IN  IF raised = None THEN TextPayload("value", None)
                      ELSE Raised(raised)
    ELSE TextPayload("Tool not found", tool_call.name)

Research_register_tool(func) ==
    /\ impl = "research" /\ pc = "idle"
    /\ chats = 0 /\ Len(tool_schemas) < 2
    /\ tools' = DictSet(tools, func.name, func)
    /\ tool_schemas' = Append(tool_schemas, func.name)
    /\ outcome' = Return(None)
    /\ lastOp' = "register_tool"
    /\ UNCHANGED <<configVars, persistVars, schemaVars, runVars, lessonVars, messages, pc,
                   loopVars, chats>>

\* Agent.chat up to the first completion request
Research_chat(message) ==
    /\ impl = "research" /\ pc = "idle"
    /\ chats < MaxChats
    /\ messages' =
          Append(IF messages = <<>> /\ instructions /= ""
                 THEN <<RoleMessage("system", instructions)>> ELSE messages,
                 RoleMessage("user", message))
    /\ iteration' = 0
    /\ requests' = 0
    /\ api_error' = None
    /\ outcome' = NoOutcome
    /\ pc' = "loop"
    /\ chats' = chats + 1
    /\ lastOp' = "chat"
    /\ UNCHANGED <<configVars, persistVars, schemaVars, runVars, lessonVars, registryVars,
                   resp, idx, has_tool_calls, final_text>>

\* one pass of 'for iteration in range(self.max_iterations)' up to the tool calls
Research_loop_response(message) ==
    /\ impl = "research" /\ pc = "loop"
    /\ iteration < max_iterations
    /\ iteration' = iteration + 1
    /\ requests' = requests + 1
    /\ resp' = message
    /\ IF message.tool_calls = <<>>
       THEN LET answer == IF message.content \in {None, ""}
                          THEN "No response generated" ELSE message.content
            IN  /\ messages' = Append(messages, RoleMessage("assistant", answer))
                /\ outcome' = Return(answer)
                /\ pc' = "idle"
                /\ UNCHANGED idx
       ELSE /\ messages' = Append(messages,
                                  AssistantMessage(message.content, message.tool_calls))
            /\ idx' = 1
            /\ pc' = "tools"
            /\ UNCHANGED outcome
    /\ lastOp' = "chat"
    /\ UNCHANGED <<configVars, persistVars, schemaVars, runVars, lessonVars, registryVars,
                   has_tool_calls, final_text, api_error, chats>>

\* the request raises: chat has no try
Research_loop_request_fails(e) ==
    /\ impl = "research" /\ pc = "loop"
    /\ iteration < max_iterations
    /\ iteration' = iteration + 1
    /\ requests' = requests + 1
    /\ api_error' = e
    /\ outcome' = Raise(e)
    /\ pc' = "idle"
    /\ lastOp' = "chat"
    /\ UNCHANGED <<configVars, persistVars, schemaVars, runVars, lessonVars, registryVars,
                   messages, resp, idx, has_tool_calls, final_text, chats>>

\* one pass of 'for tool_call in message_obj.tool_calls'
Research_loop_tool_call ==
    /\ impl = "research" /\ pc = "tools"
    /\ LET tool_call == resp.tool_calls[idx]
           result == Research_tool_result(tools, tool_call)
       IN  IF result.key = "raised"
           THEN /\ outcome' = Raise(result.cat)
                /\ pc' = "idle"
                /\ UNCHANGED <<messages, idx>>
           ELSE /\ messages' = Append(messages, ToolMessage(tool_call.call_id, result))
                /\ IF idx < Len(resp.tool_calls)
                   THEN idx' = idx + 1 /\ pc' = "tools"
                   ELSE idx' = idx /\ pc' = "loop"
                /\ UNCHANGED outcome
    /\ lastOp' = "chat"
    /\ UNCHANGED <<configVars, persistVars, schemaVars, runVars, lessonVars, registryVars,
                   iteration, resp, has_tool_calls, final_text, requests, api_error, chats>>

\* range(self.max_iterations) is used up
Research_loop_exhausted ==
    /\ impl = "research" /\ pc = "loop"
    /\ ~(iteration < max_iterations)
    /\ outcome' = Return("Max iterations reached")
    /\ pc' = "idle"
    /\ lastOp' = "chat"
    /\ UNCHANGED <<configVars, persistVars, schemaVars, runVars, lessonVars, registryVars,
                   messages, loopVars, chats>>

ResearchInit ==
    /\ impl = "research"
    /\ max_iterations \in 0..MaxIter
    /\ max_history_tokens = 0
    /\ messages = <<>>
    /\ tools = <<>>
    /\ tool_schemas = <<>>
    /\ pc = "idle"
    /\ iteration = 0
    /\ resp = <<>>
    /\ idx = 1
    /\ has_tool_calls = FALSE
    /\ final_text = None
    /\ outcome = NoOutcome
    /\ requests = 0
    /\ api_error = None
    /\ chats = 0
    /\ lastOp = "init"
    /\ file = NoFile
    /\ local_items = <<>>
    /\ fn = None
    /\ tool_obj = None
    /\ RunInit
    /\ LessonInit

ResearchNext ==
    \/ \E func \in Funcs : Research_register_tool(func)
    \/ \E message \in UserMessages : Research_chat(message)
    \/ \E message \in AgentResponses : Research_loop_response(message)
    \/ \E e \in ApiErrors : Research_loop_request_fails(e)
    \/ Research_loop_tool_call
    \/ Research_loop_exhausted

ResearchSpec == ResearchInit /\ [][ResearchNext]_vars

----------------------------------------------------------------------------
(* src/14-fastapi-deployment/server.py: the sessions dict, POST /chat and
   POST /chat/stream. A text is the sequence of its tokens. The handlers run
   on one event loop: /chat has no await and runs to its end; the body of a
   streaming response is suspended at every yield, where other requests run.
   The completion endpoint answers every request. *)

MaxRequests == 3    \* HTTP requests per behaviour
MaxSessions == 2    \* entries of the sessions dict
MaxChunks == 2      \* chunks of one streamed completion

INSTRUCTIONS == <<"You", "are", "helpful">>

\* a turn of conversation_history; request is the number of the HTTP request
\* that appended it
ServerTurn(role, content, request) ==
    [role |-> role, content |-> content, request |-> request]

\* chunk.choices[0].delta.content of the chunks of a stream: None or a token
ChunkLists == UNION { [1..n -> {None, "a"}] : n \in 0..MaxChunks }

\* the values str(uuid.uuid4()) returns, in the order it returns them
Uuids == <<"c1", "c2", "c3", "c4">>

\* get_or_create_session: the id and the sessions dict after the call
get_or_create_session(conversation_id) ==
    IF conversation_id /= None /\ conversation_id \in DOMAIN sessions
    THEN [id |-> conversation_id, sessions |-> sessions]
    ELSE LET new_id == Uuids[Cardinality(DOMAIN sessions) + 1]
         IN  [id |-> new_id,
              sessions |-> [i \in DOMAIN sessions \cup {new_id} |->
                              IF i = new_id THEN <<>> ELSE sessions[i]]]

\* the first lines of Agent.chat and Agent.chat_stream: the system turn when
\* the history is empty, then the user turn
WithUserTurn(history, message, request) ==
    Append(IF history = <<>> /\ INSTRUCTIONS /= <<>>
           THEN <<ServerTurn("system", INSTRUCTIONS, request)>> ELSE history,
           ServerTurn("user", message, request))

SetHistory(dict, id, history) == [dict EXCEPT ![id] = history]

\* POST /chat, content being response.choices[0].message.content
Server_chat(conversation_id, message, content) ==
    /\ impl = "server" /\ chats < MaxRequests
    /\ LET got == get_or_create_session(conversation_id)
           request == chats + 1
           assistant_message == IF content = None THEN <<>> ELSE <<content>>
       IN  /\ Cardinality(DOMAIN got.sessions) <= MaxSessions
           /\ sessions' =
                SetHistory(got.sessions, got.id,
                    Append(WithUserTurn(got.sessions[got.id], message, request),
                           ServerTurn("assistant", assistant_message, request)))
    /\ chats' = chats + 1
    /\ lastOp' = "chat"
    /\ UNCHANGED <<agentVars, inflight, flowVars, calc>>

\* POST /chat/stream: the handler looks the session up and returns the
\* StreamingResponse; chat_stream has not run a line yet
Server_chat_stream(conversation_id, message, chunks) ==
    /\ impl = "server" /\ chats < MaxRequests
    /\ LET got == get_or_create_session(conversation_id)
           request == chats + 1
       IN  /\ Cardinality(DOMAIN got.sessions) <= MaxSessions
           /\ sessions' = got.sessions
           /\ inflight' =
                [r \in DOMAIN inflight \cup {request} |->
                    IF r = request
                    THEN [agent |-> got.id, message |-> message, stream |-> chunks,
                          full_response |-> <<>>, at |-> "opened"]
                    ELSE inflight[r]]
    /\ chats' = chats + 1
    /\ lastOp' = "chat_stream"
    /\ UNCHANGED <<agentVars, flowVars, calc>>

Without(f, r) == [x \in DOMAIN f \ {r} |-> f[x]]

\* 'for chunk in stream' from a given full_response: up to the next yield, or
\* to the end of the stream
RECURSIVE Consume(_, _)
Consume(stream, full_response) ==
    IF stream = <<>> THEN [yields |-> FALSE, stream |-> <<>>, full_response |-> full_response]
    ELSE IF Head(stream) /= None
    THEN [yields |-> TRUE, stream |-> Tail(stream),
          full_response |-> Append(full_response, Head(stream))]
    ELSE Consume(Tail(stream), full_response)

\* the body of the streaming response runs from one suspension to the next:
\* from its start through the user turn and the request to the first token,
\* or from one token to the next; when the stream ends the assistant turn is
\* appended
Server_stream_resume(request) ==
    /\ impl = "server" /\ request \in DOMAIN inflight
    /\ LET r == inflight[request]
           history == IF r.at = "opened"
                      THEN WithUserTurn(sessions[r.agent], r.message, request)
                      ELSE sessions[r.agent]
           got == Consume(r.stream, r.full_response)
       IN  IF got.yields
           THEN /\ sessions' = SetHistory(sessions, r.agent, history)
                /\ inflight' = [inflight EXCEPT ![request] =
                                   [r EXCEPT !.stream = got.stream,
                                             !.full_response = got.full_response,
                                             !.at = "streaming"]]
           ELSE /\ sessions' = SetHistory(sessions, r.agent,
                                   Append(history,
                                          ServerTurn("assistant", got.full_response, request)))
                /\ inflight' = Without(inflight, request)
    /\ lastOp' = "stream"
    /\ UNCHANGED <<agentVars, chats, flowVars, calc>>

\* no agent object in play
NoAgent ==
    /\ max_iterations = 0
    /\ max_history_tokens = 0
    /\ messages = <<>>
    /\ tools = <<>>
    /\ tool_schemas = <<>>
    /\ pc = "idle"
    /\ iteration = 0
    /\ resp = <<>>
    /\ idx = 1
    /\ has_tool_calls = FALSE
    /\ final_text = None
    /\ outcome = NoOutcome
    /\ requests = 0
    /\ api_error = None
    /\ file = NoFile
    /\ local_items = <<>>
    /\ fn = None
    /\ tool_obj = None
    /\ RunInit

ServerInit ==
    /\ impl = "server"
    /\ NoAgent
    /\ chats = 0
    /\ lastOp = "init"
    /\ LessonInit

ConversationIds == {None} \cup {Uuids[i] : i \in 1..MaxSessions}

ServerNext ==
    \/ \E conversation_id \in ConversationIds, content \in {None, "ok"} :
          Server_chat(conversation_id, <<"hi">>, content)
    \/ \E conversation_id \in ConversationIds, chunks \in ChunkLists :
          Server_chat_stream(conversation_id, <<"hi">>, chunks)
    \/ \E request \in 1..MaxRequests : Server_stream_resume(request)

ServerSpec == ServerInit /\ [][ServerNext]_vars

----------------------------------------------------------------------------
(* src/src/workflow.py: Workflow.run. A step is known by its name and by
   whether the state it returns has should_continue False; a state records
   the steps applied to it, in order. *)

MaxSteps == 3       \* steps of a Workflow

Steps == [name : {"a", "b"}, stops : BOOLEAN]
Workflows == UNION { [1..n -> Steps] : n \in 0..MaxSteps }

\* await step(state)
ApplyStep(step, st) ==
    [should_continue |-> ~step.stops, log |-> Append(st.log, step.name)]

\* as if the flag were never looked at
ShouldBreak_never(st) == FALSE

\* if not state.should_continue: break
ShouldBreak(st) == ~st.should_continue

\* one pass of 'for step in self.steps'
Workflow_step ==
    /\ impl = "workflow" /\ lastOp /= "return"
    /\ step_idx <= Len(steps) /\ ~ShouldBreak(state)
    /\ state' = ApplyStep(steps[step_idx], state)
    /\ step_idx' = step_idx + 1
    /\ lastOp' = "step"
    /\ UNCHANGED <<agentVars, chats, serverVars, steps, returned, rounds, calc>>

\* the loop ends, by break or because the steps are used up: return state
Workflow_return ==
    /\ impl = "workflow" /\ lastOp /= "return"
    /\ step_idx > Len(steps) \/ ShouldBreak(state)
    /\ returned' = state
    /\ lastOp' = "return"
    /\ UNCHANGED <<agentVars, chats, serverVars, steps, step_idx, state, rounds, calc>>

\* Workflow(*steps).run(initial_state)
WorkflowInit ==
    /\ impl = "workflow"
    /\ NoAgent
    /\ chats = 0
    /\ lastOp = "init"
    /\ sessions = <<>> /\ inflight = <<>> /\ calc = None
    /\ steps \in Workflows
    /\ step_idx = 1
    /\ state \in [should_continue : BOOLEAN, log : {<<>>}]
    /\ returned = None
    /\ rounds = 0

WorkflowNext == Workflow_step \/ Workflow_return

WorkflowSpec == WorkflowInit /\ [][WorkflowNext]_vars

----------------------------------------------------------------------------
(* src/src/workflow.py: the evaluator-optimizer loop. A text is the sequence
   of its tokens; the n-th answer of llm() is <<"text", n>>. *)

MaxRounds == 4      \* passes of the while loop explored

\* eval_result.output_parsed.score: asked to be 1-10, any int the model gives
Scores == 0..11
\* eval_result.output_parsed.feedback
Feedbacks == {<<>>, <<"feedback">>}

LlmText(n) == <<"text", n>>

\* OptimizerState(task=...)
OptimizerState(task) ==
    [task |-> task, draft |-> <<>>, score |-> 0, feedback |-> <<>>, iterations |-> 0,
     final |-> <<>>, should_continue |-> TRUE]

\* generate_or_refine: both branches assign the llm answer to state.draft
generate_or_refine(st, answer) == [st EXCEPT !.draft = answer]

evaluate_quality(st, score, feedback) ==
    [st EXCEPT !.score = score, !.feedback = feedback, !.iterations = st.iterations + 1]

\* as if only the score ended the loop
check_quality_score_only(st) ==
    IF st.score >= 8
    THEN [st EXCEPT !.final = st.draft, !.should_continue = FALSE]
    ELSE st

check_quality(st) ==
    IF st.score >= 8 \/ st.iterations >= 3
    THEN [st EXCEPT !.final = st.draft, !.should_continue = FALSE]
    ELSE st

\* one pass of 'while state.should_continue'
optimize_loop_round(score, feedback) ==
    /\ impl = "optimizer" /\ lastOp /= "return"
    /\ state.should_continue /\ rounds < MaxRounds
    /\ state' = check_quality(
                   evaluate_quality(generate_or_refine(state, LlmText(rounds + 1)),
                                    score, feedback))
    /\ rounds' = rounds + 1
    /\ lastOp' = "round"
    /\ UNCHANGED <<agentVars, chats, serverVars, steps, step_idx, returned, calc>>

\* the while condition fails: return state
optimize_loop_return ==
    /\ impl = "optimizer" /\ lastOp /= "return"
    /\ ~state.should_continue
    /\ returned' = state
    /\ lastOp' = "return"
    /\ UNCHANGED <<agentVars, chats, serverVars, steps, step_idx, state, rounds, calc>>

\* optimize_loop(OptimizerState(task=...))
OptimizerInit ==
    /\ impl = "optimizer"
    /\ NoAgent
    /\ chats = 0
    /\ lastOp = "init"
    /\ sessions = <<>> /\ inflight = <<>> /\ calc = None
    /\ steps = <<>>
    /\ step_idx = 1
    /\ state \in {OptimizerState(task) : task \in {<<>>, <<"task">>}}
    /\ returned = None
    /\ rounds = 0

OptimizerNext ==
    \/ \E score \in Scores, feedback \in Feedbacks : optimize_loop_round(score, feedback)
    \/ optimize_loop_return

OptimizerSpec == OptimizerInit /\ [][OptimizerNext]_vars

----------------------------------------------------------------------------
(* src/tool_helpers.py: safe_calculate. A str is the sequence of its
   characters. A float is the fraction it stands for, [n, d] in lowest terms
   with d > 0: rounding is left out, so float(str(x)) = x as in Python; nz
   tells the float -0.0 from 0.0, which str() writes differently.
   Failed(e) is an exception raised inside evaluate. *)

MaxLen == 5         \* characters of the expression handed to safe_calculate

DigitChars == <<"0", "1", "2", "3", "4", "5", "6", "7", "8", "9">>
IsDigit(c) == \E k \in 1..10 : DigitChars[k] = c
DigitValue(c) == (CHOOSE k \in 1..10 : DigitChars[k] = c) - 1

RECURSIVE Gcd(_, _)
Gcd(a, b) == IF b = 0 THEN a ELSE Gcd(b, a % b)
Abs(x) == IF x < 0 THEN 0 - x ELSE x

\* the float n / d, d /= 0
Frac(n, d) ==
    LET g == Gcd(Abs(n), Abs(d))
        sign == IF d < 0 THEN 0 - 1 ELSE 1
    IN  [ok |-> TRUE, n |-> sign * (n \div g), d |-> sign * (d \div g), nz |-> FALSE]

Failed(e) == [ok |-> FALSE, n |-> 0, d |-> 1, nz |-> FALSE, error |-> e]

\* the sign bit of a float, and a float with the sign bit of its zero set
Negative(x) == x.n < 0 \/ x.nz
WithZero(x, nz) == IF x.ok /\ x.n = 0 THEN [x EXCEPT !.nz = nz] ELSE x
Neg(x) == WithZero(Frac(0 - x.n, x.d), ~Negative(x))

RECURSIVE IntPow(_, _)
IntPow(b, e) == IF e = 0 THEN 1 ELSE b * IntPow(b, e - 1)

\* ops[operation](a, b) for floats a and b; a power with a fractional
\* exponent has no fraction to stand for and is not met within MaxLen
Apply(operation, a, b) ==
    CASE operation = "+" -> WithZero(Frac(a.n * b.d + b.n * a.d, a.d * b.d),
                                     a.nz /\ b.nz)
      [] operation = "-" -> WithZero(Frac(a.n * b.d - b.n * a.d, a.d * b.d),
                                     a.nz /\ b.n = 0 /\ ~b.nz)
      [] operation = "*" -> WithZero(Frac(a.n * b.n, a.d * b.d),
                                     Negative(a) /= Negative(b))
      [] operation = "/" -> IF b.n = 0 THEN Failed("ZeroDivisionError")
                            ELSE WithZero(Frac(a.n * b.d, a.d * b.n),
                                          Negative(a) /= Negative(b))
      [] operation = "**" ->
            IF b.d /= 1 THEN Failed("no fraction")
            ELSE IF b.n >= 0
            THEN WithZero(Frac(IntPow(a.n, b.n), IntPow(a.d, b.n)),
                          a.nz /\ b.n % 2 = 1)
            ELSE IF a.n = 0 THEN Failed("ZeroDivisionError")
            ELSE Frac(IntPow(a.d, 0 - b.n), IntPow(a.n, 0 - b.n))

\* the digits of a natural number
RECURSIVE NatStr(_)
NatStr(k) == IF k < 10 THEN <<DigitChars[k + 1]>>
             ELSE Append(NatStr(k \div 10), DigitChars[(k % 10) + 1])

\* the digits after the point, by long division, at most k of them
RECURSIVE FracStr(_, _, _)
FracStr(r, d, k) ==
    IF r = 0 \/ k = 0 THEN <<>>
    ELSE <<DigitChars[((10 * r) \div d) + 1]>> \o FracStr((10 * r) % d, d, k - 1)

\* str(result) of a float: sign, digits, point, digits ('.0' when whole)
FloatStr(x) ==
    LET a == Abs(x.n)
        tail == FracStr(a % x.d, x.d, 16)
    IN  (IF Negative(x) THEN <<"-">> ELSE <<>>) \o NatStr(a \div x.d) \o <<".">>
            \o (IF tail = <<>> THEN <<"0">> ELSE tail)

\* the value of a run of digits read as a natural number
RECURSIVE NatValue(_)
NatValue(ds) == IF ds = <<>> THEN 0
                ELSE 10 * NatValue(SubSeq(ds, 1, Len(ds) - 1)) + DigitValue(ds[Len(ds)])

\* parse_number: float(s) for the strings the whitelist lets through: an
\* optional sign, digits with at most one point, at least one digit
parse_number(str) ==
    LET signed == str /= <<>> /\ str[1] \in {"+", "-"}
        body == IF signed THEN Tail(str) ELSE str
        points == {i \in 1..Len(body) : body[i] = "."}
        digits == SelectSeq(body, IsDigit)
    IN  IF \/ digits = <<>>
           \/ Cardinality(points) > 1
           \/ \E i \in 1..Len(body) : ~IsDigit(body[i]) /\ body[i] /= "."
        THEN Failed("ValueError")
        ELSE LET decimals == IF points = {} THEN 0
                             ELSE Len(body) - (CHOOSE i \in points : TRUE)
                 x == Frac(NatValue(digits), IntPow(10, decimals))
             IN  IF signed /\ str[1] = "-" THEN Neg(x) ELSE x

\* expr.rfind(c): the last position of c, 0 when there is none
RFind(expr, c) ==
    LET at == {i \in 1..Len(expr) : expr[i] = c}
    IN  IF at = {} THEN 0 ELSE CHOOSE i \in at : \A j \in at : j <= i

\* find_matching_paren from position i with the given count: the position
\* of the matching ')', 0 for 'Unmatched parentheses'
RECURSIVE find_matching_paren(_, _, _)
find_matching_paren(expr, i, count) ==
    IF i > Len(expr) THEN 0
    ELSE IF expr[i] = "(" THEN find_matching_paren(expr, i + 1, count + 1)
    ELSE IF expr[i] = ")"
    THEN IF count = 1 THEN i ELSE find_matching_paren(expr, i + 1, count - 1)
    ELSE find_matching_paren(expr, i + 1, count)

\* expr.split('**'): the parts between the non-overlapping '**', left to right
RECURSIVE SplitPow(_, _)
SplitPow(expr, part) ==
    IF expr = <<>> THEN <<part>>
    ELSE IF Len(expr) >= 2 /\ expr[1] = "*" /\ expr[2] = "*"
    THEN <<part>> \o SplitPow(SubSeq(expr, 3, Len(expr)), <<>>)
    ELSE SplitPow(Tail(expr), Append(part, Head(expr)))

\* re.split(r'([..])', expr): the parts and the separators, in turn
RECURSIVE ReSplit(_, _, _)
ReSplit(expr, seps, part) ==
    IF expr = <<>> THEN <<part>>
    ELSE IF Head(expr) \in seps
    THEN <<part, <<Head(expr)>>>> \o ReSplit(Tail(expr), seps, <<>>)
    ELSE ReSplit(Tail(expr), seps, Append(part, Head(expr)))

\* '**' in expr
HasPow(expr) == \E i \in 1..(Len(expr) - 1) : expr[i] = "*" /\ expr[i + 1] = "*"
Has(expr, c) == \E i \in 1..Len(expr) : expr[i] = c

\* result = ops['**'](parse_number(part), result) over reversed(parts[:-1])
RECURSIVE FoldPow(_, _, _)
FoldPow(parts, k, result) ==
    IF k = 0 \/ ~result.ok THEN result
    ELSE LET base == parse_number(parts[k])
         IN  IF ~base.ok THEN base
             ELSE FoldPow(parts, k - 1, Apply("**", base, result))

\* result = ops[operation](result, operand) over parts[i], parts[i+1], i
\* stepping by 2; a missing parts[i+1] is an IndexError
RECURSIVE FoldLeft(_, _, _)
FoldLeft(parts, i, result) ==
    IF i > Len(parts) \/ ~result.ok THEN result
    ELSE IF i + 1 > Len(parts) THEN Failed("IndexError")
    ELSE LET operand == parse_number(parts[i + 1])
         IN  IF ~operand.ok THEN operand
             ELSE FoldLeft(parts, i + 2, Apply(parts[i][1], result, operand))

\* the body of evaluate after the parentheses are gone
evaluate_flat(expr) ==
    IF HasPow(expr)
    THEN LET parts == SplitPow(expr, <<>>)
         IN  FoldPow(parts, Len(parts) - 1, parse_number(parts[Len(parts)]))
    ELSE IF Has(expr, "*") \/ Has(expr, "/")
    THEN LET parts == ReSplit(expr, {"*", "/"}, <<>>)
         IN  FoldLeft(parts, 2, parse_number(parts[1]))
    ELSE LET parts == ReSplit(expr, {"+", "-"}, <<>>)
         IN  IF parts[1] = <<>>
             THEN IF Len(parts) < 3 THEN Failed("IndexError")
                  ELSE LET first == parse_number(parts[3])
                       IN  FoldLeft(parts, 4,
                              IF ~first.ok \/ parts[2] = <<"+">> THEN first
                              ELSE Neg(first))
             ELSE FoldLeft(parts, 2, parse_number(parts[1]))

\* evaluate: the innermost-last '(' is replaced by str(result) of what it
\* encloses until no '(' is left
RECURSIVE evaluate(_)
evaluate(expr) ==
    IF Has(expr, "(")
    THEN LET start == RFind(expr, "(")
             end == find_matching_paren(expr, start + 1, 1)
         IN  IF end = 0 THEN Failed("ValueError")
             ELSE LET result == evaluate(SubSeq(expr, start + 1, end - 1))
                  IN  IF ~result.ok THEN result
                      ELSE evaluate(SubSeq(expr, 1, start - 1) \o FloatStr(result)
                                        \o SubSeq(expr, end + 1, Len(expr)))
    ELSE evaluate_flat(expr)

\* the characters of ^[\d+\-*/().]+$
Whitelist == {"+", "-", "*", "/", "(", ")", "."}

\* safe_calculate(expression): every exception of evaluate leaves as ValueError
safe_calculate(expression) ==
    LET expr == SelectSeq(expression, LAMBDA c : c /= " ")
    IN  IF expr = <<>> \/ \E i \in 1..Len(expr) : ~IsDigit(expr[i]) /\ expr[i] \notin Whitelist
        THEN Raise("ValueError")
        ELSE LET result == evaluate(expr)
             IN  IF result.ok THEN Return([n |-> result.n, d |-> result.d])
                 ELSE Raise("ValueError")

\* the characters expressions are made of: two digits, the operators, the
\* parentheses, a blank and a letter
Alphabet == {"0", "2", "+", "-", "*", "/", "(", ")", " ", "x"}
Expressions == UNION { [1..n -> Alphabet] : n \in 0..MaxLen }

\* one call of safe_calculate
Calc_call ==
    /\ impl = "calc" /\ lastOp = "init"
    /\ calc' = [calc EXCEPT !.result = safe_calculate(calc.expression)]
    /\ lastOp' = "safe_calculate"
    /\ UNCHANGED <<agentVars, chats, serverVars, flowVars>>

CalcInit ==
    /\ impl = "calc"
    /\ NoAgent
    /\ chats = 0
    /\ lastOp = "init"
    /\ sessions = <<>> /\ inflight = <<>> /\ FlowInit
    /\ calc \in [expression : Expressions, result : {NoOutcome}]

CalcNext == Calc_call

CalcSpec == CalcInit /\ [][CalcNext]_vars

----------------------------------------------------------------------------
(* src/src/agent.py's Agent with a caller who may ask for cancellation while
   a chat() call is running *)

\* the caller sets the cancellation signal during a running call
Cancel ==
    /\ impl = "agent" /\ pc /= "idle"
    /\ ~cancel_requested
    /\ cancel_requested' = TRUE
    /\ UNCHANGED <<configVars, persistVars, schemaVars, started, finished, lessonVars,
                   registryVars, messages, pc, loopVars, outcome, chats, lastOp>>

CancelInit == Init /\ impl = "agent"

CancelNext ==
    \/ \E func \in Funcs : Agent_register_tool(func)
    \/ \E message \in UserMessages : Agent_chat(message)
    \/ \E message \in AgentResponses : Agent_loop_response(message)
    \/ \E e \in ApiErrors : Agent_loop_request_fails(e)
    \/ Agent_loop_exhausted
    \/ Agent_loop_tool_call
    \/ Cancel

CancelSpec == CancelInit /\ [][CancelNext]_vars

----------------------------------------------------------------------------
(* C11 Schemas match the registry: in every state of an Agent of
   src/src/agent.py the schema list that goes out with a completion request
   names exactly the tools that resolve by name, each of them once. *)
SchemaNames(schemas) ==
    IF schemas = None THEN {} ELSE {schemas[i] : i \in 1..Len(schemas)}

C11_SchemasMatchRegistry ==
    impl = "agent" =>
        /\ SchemaNames(Agent_request_tools) = DOMAIN tools
        /\ \A i, j \in 1..Len(tool_schemas) :
              tool_schemas[i] = tool_schemas[j] => i = j

----------------------------------------------------------------------------
(* C12 One exhaustion policy: a call of Agent.chat of src/src/agent.py, of
   Agent.chat of src/agents.py or of AgentSync.run that used up its ceiling
   on responses that asked for a tool ends in the kind of outcome (raise or
   return) in which each of the three implementations ends on exhaustion. *)
Exhausted ==
    /\ CallEnded /\ api_error = None
    /\ requests = Ceiling
    /\ Ceiling > 0 => IsToolResult(messages[Len(messages)])

C12_OneExhaustionPolicy ==
    (impl \in {"agent", "agents", "sync"} /\ Exhausted) =>
        \A class \in {"agent", "agents", "sync"} :
            OnExhaustion(class).kind = outcome.kind

----------------------------------------------------------------------------
(* C13 Unknown tool: in an Agent of src/src/agent.py the tool-result turn of
   every invocation whose tool name is not registered, whatever its
   arguments, carries an error payload that names the missing tool. *)
C13_UnknownToolNamed ==
    impl = "agent" =>
        \A i \in 1..Len(messages) :
            messages[i].role = "tool" =>
                \A j \in 1..(i - 1) :
                    \A k \in 1..Len(messages[j].tool_calls) :
                        LET call == messages[j].tool_calls[k]
                        IN  (call.call_id = messages[i].call_id
                             /\ call.name \notin DOMAIN tools) =>
                                /\ messages[i].payload.key = "error"
                                /\ messages[i].payload.tool = call.name

----------------------------------------------------------------------------
(* C14 Trim stops at the budget and never drops pinned turns: a call of
   AgentWithMemory._trim_history keeps every system item, removes non-system
   items only from the old end, and removes no more than needed: what remains
   costs at most max_history_tokens or holds no non-system item, and with the
   last removed item put back it would cost more than max_history_tokens. *)
NonSystem(turns) == SelectSeq(turns, LAMBDA turn : turn.role /= "system")

C14_Step ==
    lastOp' = "trim" =>
        LET all == NonSystem(messages)
            kept == NonSystem(messages')
            dropped == Len(all) - Len(kept)
        IN  /\ SystemTurns(messages') = SystemTurns(messages)
            /\ dropped >= 0
            /\ kept = SubSeq(all, dropped + 1, Len(all))
            /\ \/ _count_tokens(messages') <= max_history_tokens
               \/ kept = <<>>
            /\ dropped > 0 =>
                  _count_tokens(SystemTurns(messages) \o SubSeq(all, dropped, Len(all)))
                      > max_history_tokens

C14_TrimStopsAtBudget == [][C14_Step]_vars

\* a trim removed some but not all non-system items of a memory with a system
\* item, and what is left fits the budget
C14_Witness ==
    /\ lastOp = "trim"
    /\ messages = _trim_history(local_items, max_history_tokens)
    /\ SystemTurns(local_items) /= <<>>
    /\ Len(NonSystem(messages)) > 0
    /\ Len(NonSystem(messages)) < Len(NonSystem(local_items))
    /\ _count_tokens(messages) <= max_history_tokens

----------------------------------------------------------------------------
(* C15 Trim preserves order: the items that a call of
   AgentWithMemory._trim_history retains stand in the relative order they had
   before the call, also when a system item followed non-system items. *)
RECURSIVE IsSubsequence(_, _)
IsSubsequence(s, t) ==
    IF s = <<>> THEN TRUE
    ELSE IF t = <<>> THEN FALSE
    ELSE IF Head(s) = Head(t) THEN IsSubsequence(Tail(s), Tail(t))
    ELSE IsSubsequence(s, Tail(t))

C15_Step == lastOp' = "trim" => IsSubsequence(messages', messages)

C15_TrimPreservesOrder == [][C15_Step]_vars

----------------------------------------------------------------------------
(* C16 Trim count: when memory holds one system item followed by N non-system
   items that all cost the same, one unit, a call of
   AgentWithMemory._trim_history with a budget of k units, k < N, leaves the
   system item followed by the k most recent non-system items. *)
C16_Step ==
    lastOp' = "trim" =>
        \A k \in 0..Len(messages) :
            LET N == Len(messages) - 1
                unit == _count_tokens(<<messages[2]>>)
            IN  ( /\ N >= 1 /\ k < N
                  /\ messages[1].role = "system"
                  /\ \A i \in 2..(N + 1) :
                        /\ messages[i].role /= "system"
                        /\ _count_tokens(<<messages[i]>>) = unit
                  /\ max_history_tokens = k * unit ) =>
                    messages' = <<messages[1]>> \o SubSeq(messages, N + 2 - k, N + 1)

C16_TrimCount == [][C16_Step]_vars

----------------------------------------------------------------------------
(* C17 Persistence round trip: save_conversation returns having written a
   file whose content json.load turns back into the memory that was saved,
   item for item and field for field, and load_conversation then returns with
   exactly those items in memory, whatever items the saved memory holds. *)
C17_Step ==
    /\ lastOp' = "save" =>
          /\ outcome'.kind = "return"
          /\ file'.complete
          /\ JsonLoad(file') = messages
    /\ lastOp' = "load" =>
          /\ outcome'.kind = "return"
          /\ messages' = JsonLoad(file)

C17_PersistenceRoundTrip == [][C17_Step]_vars

----------------------------------------------------------------------------
(* C18 Required versus optional parameters: the Tool that Tool.from_function
   of src/src/tool.py returns lists every parameter of the function in
   parameters.properties and lists a parameter in parameters.required exactly
   when it has no default, each required name once; a function without
   parameters gets empty properties and an empty required list. *)
C18_RequiredIffNoDefault ==
    lastOp = "from_function" =>
        LET params == fn.parameters
            properties == tool_obj.parameters.properties
            required == tool_obj.parameters.required
        IN  /\ DOMAIN properties = {params[i].name : i \in 1..Len(params)}
            /\ \A i \in 1..Len(params) :
                  (\E j \in 1..Len(required) : required[j] = params[i].name)
                      <=> params[i].default = empty
            /\ \A i, j \in 1..Len(required) : required[i] = required[j] => i = j
            /\ params = <<>> => (DOMAIN properties = {} /\ required = <<>>)

\* the function has a parameter without default and, after it, one whose
\* default is None; the first is required and the second is not
C18_Witness ==
    /\ lastOp = "from_function"
    /\ Len(fn.parameters) = 2
    /\ fn.parameters[1].default = empty
    /\ fn.parameters[2].default = None
    /\ tool_obj.parameters.required = <<fn.parameters[1].name>>
    /\ fn.parameters[2].name \in DOMAIN tool_obj.parameters.properties

----------------------------------------------------------------------------
(* C19 Type mapping: the Tool that Tool.from_function of src/src/tool.py
   returns gives each parameter the schema type of its annotation: str
   string, int integer, float number, bool boolean, list array, dict object,
   and string when the parameter has no annotation. *)
SchemaType(annotation) ==
    CASE annotation = "str" -> "string"
      [] annotation = "int" -> "integer"
      [] annotation = "float" -> "number"
      [] annotation = "bool" -> "boolean"
      [] annotation = "list" -> "array"
      [] annotation = "dict" -> "object"
      [] OTHER -> "string"

C19_TypeMapping ==
    lastOp = "from_function" =>
        \A i \in 1..Len(fn.parameters) :
            tool_obj.parameters.properties[fn.parameters[i].name].type
                = SchemaType(fn.parameters[i].annotation)

----------------------------------------------------------------------------
(* C20 Registration is all-or-nothing: a call of register_tool or
   register_tools on an Agent of src/src/agent.py or src/agents.py that
   raises leaves the name-to-callable mapping and the schema list as they were
   before the call. *)
C20_Step ==
    ( /\ impl \in {"agent", "agents", "memory"}
      /\ lastOp' \in {"register_tool", "register_tools"}
      /\ outcome'.kind = "raise" ) =>
        tools' = tools /\ tool_schemas' = tool_schemas

C20_RegistrationAllOrNothing == [][C20_Step]_vars

----------------------------------------------------------------------------
(* C21 Concurrent tool execution: the Agent of src/src/agent.py runs the tool
   invocations of one model response concurrently: once any of them has
   finished, every sibling invocation of that response has started; and all
   of them have finished when the next completion request is issued. *)
SiblingIds == IF resp = <<>> THEN {}
              ELSE {resp.tool_calls[i].call_id : i \in 1..Len(resp.tool_calls)}

C21_ConcurrentToolExecution ==
    impl = "agent" =>
        /\ finished /= {} => started = SiblingIds
        /\ pc \in {"loop", "idle"} /\ outcome.kind /= "raise" => finished = started

----------------------------------------------------------------------------
(* C22 Cancellation: once the cancellation signal is set during a chat() call
   of src/src/agent.py's Agent, the call issues no further completion request
   and starts no further tool invocation, it ends with a Cancelled condition,
   and every invocation that was started has its tool-result turn in memory. *)
HasResult(msgs, call_id) ==
    \E i \in 1..Len(msgs) : msgs[i].role = "tool" /\ msgs[i].call_id = call_id

C22_Step ==
    (impl = "agent" /\ cancel_requested /\ pc /= "idle") =>
        /\ requests' = requests
        /\ started' = started
        /\ pc' = "idle" =>
              /\ outcome' = Raise("Cancelled")
              /\ \A call_id \in started' : HasResult(messages', call_id)

C22_Cancellation == [][C22_Step]_vars

----------------------------------------------------------------------------
(* C23 No pending invocation at request time: whenever src/src/agent.py's
   Agent is about to issue a completion request, every invocation in the
   history it sends is followed, before any later assistant turn, by a
   tool-result turn with the same call id; in the first chat() call and in
   later ones, whatever way the earlier call ended. *)
Answered(msgs, i, call_id) ==
    \E j \in (i + 1)..Len(msgs) :
        /\ msgs[j].role = "tool" /\ msgs[j].call_id = call_id
        /\ \A k \in (i + 1)..j : msgs[k].role = "tool"

NoPendingInvocation(msgs) ==
    \A i \in 1..Len(msgs) :
        msgs[i].role = "assistant" =>
            \A c \in 1..Len(msgs[i].tool_calls) :
                Answered(msgs, i, msgs[i].tool_calls[c].call_id)

AboutToRequest == pc = "loop" /\ Agent_while(iteration, max_iterations)

C23_NoPendingAtRequest ==
    (impl = "agent" /\ AboutToRequest) => NoPendingInvocation(messages)

\* the first request of a second chat() whose predecessor spent its only
\* iteration on a tool call and was exhausted
C23_Witness ==
    /\ impl = "agent" /\ AboutToRequest
    /\ chats = 2 /\ max_iterations = 1 /\ iteration = 0
    /\ \E i \in 1..Len(messages) :
          messages[i].role = "assistant" /\ messages[i].tool_calls /= <<>>

----------------------------------------------------------------------------
(* C24 Lesson agent stays usable: in the Agent of
   12-example-research-assistant, a tool that raises or arguments that cannot
   be parsed never end chat() with an exception, and after any outcome of
   chat() every tool-call request in conversation_history has a tool-result
   turn with the same tool_call_id. *)
ToolFaults == {"JSONDecodeError", "TypeError", "ValueError"}

C24_LessonAgentStaysUsable ==
    (impl = "research" /\ pc = "idle") =>
        /\ ~(outcome.kind = "raise" /\ outcome.value \in ToolFaults)
        /\ NoPendingInvocation(messages)

----------------------------------------------------------------------------
(* C25 AgentSync._call_tool never raises: for an unknown tool name, malformed
   JSON arguments, arguments that do not match the tool's parameters, or a
   tool that raises, it returns a payload with an error key; when the tool
   returns, it returns a payload with a result key. *)
Called == impl = "sync" /\ lastOp = "_call_tool"

\* the tool is registered, its arguments parse and match, and it returns
ToolReturns ==
    /\ resp.name \in DOMAIN tools
    /\ LET args == json_loads(IF resp.arguments \in {None, ""} THEN ArgsEmpty
                              ELSE resp.arguments)
       IN  args.ok /\ CallFunc(tools[resp.name], args) = None

C25_CallToolNeverRaises ==
    Called =>
        /\ outcome.kind = "return"
        /\ outcome.value.key = (IF ToolReturns THEN "result" ELSE "error")

(* C25 as amended: the payload has the result key exactly when the tool
   returns a value json.dumps can serialize; in every other case, a return
   value json.dumps rejects included, it has the error key; no case raises. *)
C25_CallToolPayload ==
    Called =>
        /\ outcome.kind = "return"
        /\ outcome.value.key =
              (IF ToolReturns /\ Serializable(tools[resp.name]) THEN "result" ELSE "error")

\* a registered tool whose arguments are not JSON was called
C25_Witness ==
    /\ Called
    /\ resp.name \in DOMAIN tools /\ resp.arguments = ArgsBadJson
    /\ outcome = Return(ExceptionPayload("JSONDecodeError"))

----------------------------------------------------------------------------
(* C26 History budget at request time: whenever AgentWithMemory is about to
   issue a completion request, the history it sends costs at most
   max_history_tokens by _count_tokens, unless its only non-system item is the
   current user message. *)
C26_HistoryBudgetAtRequest ==
    (impl = "memory" /\ pc = "loop" /\ iteration < max_iterations) =>
        \/ _count_tokens(messages) <= max_history_tokens
        \/ Len(NonSystem(messages)) <= 1

----------------------------------------------------------------------------
(* C27 Streaming keeps turns paired: in the server of 14-fastapi-deployment,
   once every request has completed, each conversation_history is one system
   turn followed by strictly alternating user and assistant turns, each
   assistant turn appended by the request that appended the user turn
   immediately before it. *)
Paired(history) ==
    \/ history = <<>>
    \/ /\ history[1].role = "system"
       /\ Len(history) % 2 = 1
       /\ \A k \in 1..((Len(history) - 1) \div 2) :
             /\ history[2 * k].role = "user"
             /\ history[2 * k + 1].role = "assistant"
             /\ history[2 * k + 1].request = history[2 * k].request

C27_StreamingKeepsTurnsPaired ==
    (impl = "server" /\ DOMAIN inflight = {}) =>
        \A id \in DOMAIN sessions : Paired(sessions[id])

----------------------------------------------------------------------------
(* C28 Workflow.run applies its steps in the order given, each to the state
   the previous one returned, and runs no step once a state with
   should_continue = false has been seen, including when the initial state
   has it false; it returns the state the last executed step produced. *)
StepNames == [i \in 1..Len(steps) |-> steps[i].name]

C28_WorkflowRunsInOrder ==
    (impl = "workflow" /\ lastOp = "return") =>
        LET n == Len(returned.log)
        IN  /\ IsPrefix(returned.log, StepNames)
            /\ \A i \in 1..(n - 1) : ~steps[i].stops
            /\ n > 0 => returned.should_continue = ~steps[n].stops
            /\ n < Len(steps) => ~returned.should_continue
            /\ returned = state

\* a run that stopped at its second step of three
C28_Witness ==
    /\ impl = "workflow" /\ lastOp = "return"
    /\ Len(steps) = 3 /\ Len(returned.log) = 2 /\ steps[2].stops

----------------------------------------------------------------------------
(* C29 Evaluator-optimizer loop terminates: from iterations = 0 and
   should_continue = true, optimize_loop makes at most 3 rounds whatever the
   scores, stops at the first round whose score is >= 8 or at round 3, and on
   exit should_continue is false and final is the draft of the last round. *)
C29_OptimizerLoopTerminates ==
    impl = "optimizer" =>
        /\ rounds <= 3
        /\ (rounds > 0 /\ state.should_continue) => (state.score < 8 /\ rounds < 3)
        /\ ~state.should_continue => (state.score >= 8 \/ rounds = 3)
        /\ lastOp = "return" =>
              /\ ~returned.should_continue
              /\ rounds >= 1
              /\ returned.final = LlmText(rounds)
              /\ returned.draft = returned.final

\* three rounds, none good enough
C29_Witness ==
    impl = "optimizer" /\ lastOp = "return" /\ rounds = 3 /\ returned.score < 8

----------------------------------------------------------------------------
(* The reading of arithmetic text that C30 measures safe_calculate against.
   Expression: Term (('+' | '-') Term)*;  Term: Unary (('*' | '/') Unary)*;
   Unary: Power, and with signs also ('+' | '-') Unary;
   Power: Base ('**' Unary)?;  Base: number | '(' Expression ')'.
   A parse is [parsed, pos, val]: whether the text from position i reads as
   the phrase, where the phrase ends, and its value (a float or the failure
   of a division by zero). *)

NoParse == [parsed |-> FALSE, pos |-> 0, val |-> Failed("syntax")]
Parse(pos, val) == [parsed |-> TRUE, pos |-> pos, val |-> val]

\* the value of a op b, the first failure when one of them has none
Value(operation, a, b) ==
    IF ~a.ok THEN a ELSE IF ~b.ok THEN b ELSE Apply(operation, a, b)

\* the end of the run of digits and points that starts at i
RECURSIVE NumberEnd(_, _)
NumberEnd(text, i) ==
    IF i <= Len(text) /\ (IsDigit(text[i]) \/ text[i] = ".")
    THEN NumberEnd(text, i + 1) ELSE i

RECURSIVE ParseExpression(_, _, _)
RECURSIVE ExpressionRest(_, _, _, _)
RECURSIVE ParseTerm(_, _, _)
RECURSIVE TermRest(_, _, _, _)
RECURSIVE ParseUnary(_, _, _)
RECURSIVE ParsePower(_, _, _)
RECURSIVE ParseBase(_, _, _)

ParseBase(text, i, signs) ==
    IF i > Len(text) THEN NoParse
    ELSE IF text[i] = "("
    THEN LET inner == ParseExpression(text, i + 1, signs)
         IN  IF inner.parsed /\ inner.pos <= Len(text) /\ text[inner.pos] = ")"
             THEN Parse(inner.pos + 1, inner.val) ELSE NoParse
    ELSE IF IsDigit(text[i]) \/ text[i] = "."
    THEN LET end == NumberEnd(text, i)
             number == parse_number(SubSeq(text, i, end - 1))
         IN  IF number.ok THEN Parse(end, number) ELSE NoParse
    ELSE NoParse

ParsePower(text, i, signs) ==
    LET base == ParseBase(text, i, signs)
    IN  IF base.parsed /\ base.pos + 1 <= Len(text)
           /\ text[base.pos] = "*" /\ text[base.pos + 1] = "*"
        THEN LET exponent == ParseUnary(text, base.pos + 2, signs)
             IN  IF exponent.parsed
                 THEN Parse(exponent.pos, Value("**", base.val, exponent.val))
                 ELSE NoParse
        ELSE base

ParseUnary(text, i, signs) ==
    IF signs /\ i <= Len(text) /\ text[i] \in {"+", "-"}
    THEN LET operand == ParseUnary(text, i + 1, signs)
         IN  IF ~operand.parsed THEN NoParse
             ELSE IF text[i] = "+" \/ ~operand.val.ok THEN operand
             ELSE Parse(operand.pos, Neg(operand.val))
    ELSE ParsePower(text, i, signs)

TermRest(text, i, signs, left) ==
    IF i <= Len(text) /\ text[i] \in {"*", "/"}
    THEN LET right == ParseUnary(text, i + 1, signs)
         IN  IF right.parsed
             THEN TermRest(text, right.pos, signs, Value(text[i], left, right.val))
             ELSE NoParse
    ELSE Parse(i, left)

ParseTerm(text, i, signs) ==
    LET first == ParseUnary(text, i, signs)
    IN  IF first.parsed THEN TermRest(text, first.pos, signs, first.val) ELSE NoParse

ExpressionRest(text, i, signs, left) ==
    IF i <= Len(text) /\ text[i] \in {"+", "-"}
    THEN LET right == ParseTerm(text, i + 1, signs)
         IN  IF right.parsed
             THEN ExpressionRest(text, right.pos, signs, Value(text[i], left, right.val))
             ELSE NoParse
    ELSE Parse(i, left)

ParseExpression(text, i, signs) ==
    LET first == ParseTerm(text, i, signs)
    IN  IF first.parsed THEN ExpressionRest(text, first.pos, signs, first.val) ELSE NoParse

NoBlanks(text) == SelectSeq(text, LAMBDA c : c /= " ")

\* the whole text, blanks aside, reads as one expression
Reads(text, signs) ==
    LET whole == ParseExpression(NoBlanks(text), 1, signs)
    IN  whole.parsed /\ whole.pos = Len(NoBlanks(text)) + 1

\* a blank that parts two digits or the two stars of '**'
BlankInToken(text) ==
    \E i, j \in 1..Len(text) :
        /\ i + 1 < j
        /\ \A k \in (i + 1)..(j - 1) : text[k] = " "
        /\ \/ (IsDigit(text[i]) \/ text[i] = ".") /\ (IsDigit(text[j]) \/ text[j] = ".")
           \/ text[i] = "*" /\ text[j] = "*"

\* well-formed: numbers, binary operators and parentheses only
WellFormed(text) == Reads(text, FALSE) /\ ~BlankInToken(text)
\* not an expression under any reading, signed numbers and blanks allowed
IllFormed(text) == ~Reads(text, TRUE)
StandardValue(text) == ParseExpression(NoBlanks(text), 1, FALSE).val

(* C30: safe_calculate returns the standard value of every well-formed
   expression, * and / binding tighter than + and - and ** tighter still, and
   raises ValueError and nothing else for a division by zero and for every
   text that is no expression. Texts that are expressions only when a sign
   before a number or a blank inside a number is allowed are not judged. *)
C30_SafeCalculate ==
    (impl = "calc" /\ lastOp = "safe_calculate") =>
        LET text == calc.expression
            result == calc.result
            expected == StandardValue(text)
        IN  /\ result.kind \in {"return", "raise"}
            /\ result.kind = "raise" => result.value = "ValueError"
            /\ (WellFormed(text) /\ expected.ok) =>
                    /\ result.kind = "return"
                    /\ result.value.n = expected.n /\ result.value.d = expected.d
            /\ (IllFormed(text) \/ (WellFormed(text) /\ ~expected.ok)) =>
                    result.kind = "raise"

====
